---- MODULE Spec2Model ----
(***************************************************************************)
(* A model of the job scraper's resilience layer (src/gemini_ai.py: rate   *)
(* limiter, model cooldown tracker, model fallback client) and of its      *)
(* extraction walk (src/web_scraper.py: scrape_mode).                      *)
(*                                                                         *)
(* Time is the integer number of seconds read from time.time().            *)
(***************************************************************************)
EXTENDS Integers, Sequences, FiniteSets, TLC

VARIABLES
    now,                      \* the wall clock, time.time()
    _last_request_time,       \* gemini_ai.py:21
    _request_count,           \* gemini_ai.py:23
    _minute_start_time,       \* gemini_ai.py:24
    _model_rate_limit_flags,  \* gemini_ai.py:25, a dict: model name -> time of the mark
    rl_sleep,                 \* what the last wait_for_rate_limit call slept: [window, interval]
    prev_grant,               \* the value of _last_request_time before the last grant
    window_grants,            \* requests granted since _minute_start_time was last set
    pc,                       \* position of the call_gemini_with_fallback caller
    model_idx,                \* index into MODEL_HIERARCHY of the for loop (line 119)
    attempt,                  \* the retry loop's variable (line 137)
    result,                   \* what call_gemini_with_fallback returned
    calls,                    \* number of call_gemini_with_fallback calls started
    generations,              \* number of generate_content calls issued so far
    gen_calls,                \* per model: generate_content calls issued in the current call
    quota_at,                 \* per model: gen_calls of the model when it raised a quota error
    pending,                  \* the sleeps issued since the last quota error of the call
    last_switch,              \* the last completed switch from a quota error to a generation call
    last_mark,                \* per model: the clock of its last mark by the client, -1: none
    eligible,                 \* the models whose cooldown had elapsed when the call was made
    gen_in_cooldown,          \* a generation call went to a model inside its cooldown
    skipped_eligible,         \* a call skipped, as cooled, a model of eligible
    skipped,                  \* the models the call skipped as cooled or not initializable
    last_gen,                 \* the call's last generation call: [model, outcome]
    attempts_log,             \* the outcomes of the attempts on the model being tried
    sleeps_log,               \* the retry delays slept on it: [after (attempts), seconds]
    acquired,                 \* the call's wait_for_rate_limit calls: [n, count (_request_count left)]
    at_entry,                 \* the clock and the rate limiter's globals when the call was made
    _request_lock,            \* gemini_ai.py:22, the thread that holds it, or "free"
    tpc,                      \* per thread: its position in wait_for_rate_limit
    t_current_time,           \* per thread: the local current_time (line 70)
    wake,                     \* per thread: the clock at which its time.sleep ends
    loaded,                   \* per thread: the _request_count read by line 96
    last_grantee,             \* the thread that wrote _last_request_time last
    prev_grantee,             \* the thread that wrote it before that
    kpc,                      \* per thread: its position in the cooldown tracker
    k_model,                  \* per thread: the model_name of its call
    k_since,                  \* per thread: the local time_since_limit (line 53)
    k_result,                 \* per thread: how its last call ended
    fresh_removed,            \* a mark was deleted while still inside its cooldown
    cool_ticks,               \* the clock steps taken between tracker calls
    list_items,               \* the site: the items of a list page, in page order
    num_pages,                \* the site: the number of list pages
    detail_cards,             \* the site: elements of a detail page the job_item selector matches
    selectors,                \* scrape_mode's selectors: which optional keys are set
    extract_full_details,     \* scrape_mode's parameter
    page,                     \* where the browser's page is: [kind, p, url]
    spc,                      \* position of scrape_mode
    item_i,                   \* the for loop's i (line 399), counted from 1
    job_cards,                \* number of locators returned by line 393
    job_detail_analyzed,      \* line 388
    detail_selectors,         \* line 380: "None", "empty" ({}) or "found"
    all_jobs,                 \* line 379
    page_count,               \* line 387
    browser_open,             \* the browser launched at line 383 is open
    temp_pages,               \* discovery tabs (line 449) open
    discoveries,              \* times the discovery block (line 445) was entered
    env_fault,                \* a navigation, a wait or the discovery failed
    wait_failed_on,           \* the page_count at which line 392 timed out (0: it did not)
    scout_pc,                 \* position of scout_mode
    scout_browser_open,       \* the browser scout_mode launched (line 289) is open
    last_check,               \* the last is_model_rate_limited call of the one caller
    last_status,              \* the last get_fallback_status call of the one caller
    tracker_ticks,            \* the clock steps taken between the calls of the one caller
    card_text,                \* the stripped text of the elements of the list card
    list_response,            \* what get_selectors_from_gemini returns to scout_mode
    saved,                    \* the selectors scout_mode saved for the company
    parsed_response,          \* what get_job_detail_selectors_from_gemini returns
    detail_arg,               \* the detail_selectors argument of extract_job_details
    ai_text,                  \* the site: the text of the elements an AI selector matches
    unmatched,                \* the site: the keys whose selector matches no visible text
    fallback_extracted,       \* line 95: the result of extract_job_details_fallback
    metadata,                 \* line 103: the result of extract_job_metadata
    details,                  \* extract_job_details' details
    ai_details,               \* details as the loop of lines 67-92 left it
    merged,                   \* details as the merge of lines 98-100 left it
    queried,                  \* the keys whose selector was given to page.locator (line 71)
    job_data,                 \* the record of lines 433-440, after line 487
    epc,                      \* position in the extraction of one item's details
    navigated,                \* whether page.goto(job_url) (line 61) returned: "yes", "no", "unset"
    element,                  \* extract_job_id's element: [href, attrs, text]
    raises_at,                \* the access to the element that raises ("none": none does)
    jpc,                      \* position of extract_job_id
    extracted_id,             \* what extract_job_id returns
    configurations,           \* the content of CONFIGURATIONS_FILE: safe name -> entry
    batch_pc,                 \* the batch operation that is running, "idle": none
    company_idx,              \* the batch operation's position in the company list
    last_scout,               \* the last scout_mode call and the store it found
    last_scrape               \* the last scrape of a company and the scout before it

rate_vars == <<_last_request_time, _request_count, _minute_start_time,
               rl_sleep, prev_grant, window_grants>>
client_vars == <<pc, model_idx, attempt, result, calls, generations, gen_calls, quota_at,
                 pending, last_switch, last_mark, eligible, gen_in_cooldown,
                 skipped_eligible, skipped, last_gen, attempts_log, sleeps_log,
                 acquired, at_entry>>
thread_vars == <<_request_lock, tpc, t_current_time, wake, loaded, last_grantee, prev_grantee>>
cool_vars == <<kpc, k_model, k_since, k_result, fresh_removed, cool_ticks>>
site_vars == <<list_items, num_pages, detail_cards, selectors, extract_full_details>>
scout_vars == <<scout_pc, scout_browser_open>>
scrape_vars == <<site_vars, page, spc, item_i, job_cards, job_detail_analyzed, detail_selectors,
                 all_jobs, page_count, browser_open, temp_pages, discoveries, env_fault,
                 wait_failed_on, scout_vars>>
\* what the one-caller actions of the fallback client and the rate limiter leave alone
tracker_vars == <<last_check, last_status, tracker_ticks>>
extract_vars == <<card_text, list_response, saved, parsed_response, detail_arg, ai_text, unmatched,
                  fallback_extracted, metadata, details, ai_details, merged, queried,
                  job_data, epc, navigated>>
jobid_vars == <<element, raises_at, jpc, extracted_id>>
store_vars == <<configurations, batch_pc, company_idx, last_scout, last_scrape>>
pure_vars == <<extract_vars, jobid_vars, store_vars>>
other_vars == <<thread_vars, cool_vars, scrape_vars, tracker_vars, pure_vars>>
vars == <<now, rate_vars, _model_rate_limit_flags, client_vars, other_vars>>

----------------------------------------------------------------------------
(* Bounds of the model *)

\* the clock when gemini_ai is imported (any value past the minimum interval)
ImportTime == 20
\* the clock value past which no further step is modelled
MaxTime == 1000
\* a sleep returns at most this many seconds late
MaxOversleep == 1
\* a generate_content call answers at once or after this many seconds
MaxLatency == 1
\* the clock value past which the rate limiter alone is not followed
RateHorizon == 95
\* the clock value past which the single wait_for_rate_limit calls are not followed
LimiterHorizon == 100
\* number of call_gemini_with_fallback calls
MaxCalls == 2
\* number of generate_content calls over all the calls
MaxGenerations == 9
\* the clock value past which the concurrent callers are not followed
ThreadHorizon == 100
\* items of a list page
MaxItems == 3
\* list pages of the site
MaxPages == 2
\* elements of a detail page that the job_item selector matches
MaxDetailCards == 2
\* the clock steps between the tracker calls of one caller
MaxTrackerTicks == 3
\* the clock steps between the calls of the concurrent cooldown tracker
MaxCoolTicks == 3
\* the seconds of a window in which the concurrent callers are followed
ThreadSpan == 12

----------------------------------------------------------------------------
(* Configuration: src/config.py *)

MAX_RETRY_ATTEMPTS == 3
RETRY_DELAY_SECONDS == 2
GEMINI_REQUESTS_PER_MINUTE == 15
GEMINI_RATE_LIMIT_BUFFER == 5
\* 60 / 15 is the float 4.0, so the integer quotient is exact
GEMINI_MIN_REQUEST_INTERVAL == (60 \div GEMINI_REQUESTS_PER_MINUTE) + GEMINI_RATE_LIMIT_BUFFER
\* the length of the rate window, the literal 60 of wait_for_rate_limit
WINDOW_SECONDS == 60
\* the default of is_model_rate_limited's cooldown_minutes
COOLDOWN_MINUTES == 5

\* the threads that call into gemini_ai concurrently
Threads == {"t1", "t2"}

MODEL_HIERARCHY == <<"gemini-1.5-flash", "gemini-1.5-pro", "gemini-1.0-pro">>
Models == {MODEL_HIERARCHY[i] : i \in 1..Len(MODEL_HIERARCHY)}

----------------------------------------------------------------------------
(* Error classification: gemini_ai.py:178-180.  A message is the sequence  *)
(* of its characters, so that `keyword in error_msg` is a substring test.  *)

UpperCase == <<"A","B","C","D","E","F","G","H","I","J","K","L","M",
               "N","O","P","Q","R","S","T","U","V","W","X","Y","Z">>
LowerCase == <<"a","b","c","d","e","f","g","h","i","j","k","l","m",
               "n","o","p","q","r","s","t","u","v","w","x","y","z">>

\* str.lower() on one character
LowerChar(c) == IF \E i \in 1..26 : UpperCase[i] = c
                THEN LowerCase[CHOOSE i \in 1..26 : UpperCase[i] = c]
                ELSE c

\* str.lower()
Lower(s) == [i \in 1..Len(s) |-> LowerChar(s[i])]

\* `k in s` on strings
Contains(s, k) == \E i \in 0..(Len(s) - Len(k)) : \A j \in 1..Len(k) : s[i + j] = k[j]

QuotaKeywords == { <<"q","u","o","t","a">>,
                   <<"r","a","t","e">>,
                   <<"l","i","m","i","t">>,
                   <<"r","e","s","o","u","r","c","e","_","e","x","h","a","u","s","t","e","d">>,
                   <<"4","2","9">>,
                   <<"e","x","c","e","e","d","e","d">> }

\* line 180 on str(e)
IsQuotaError(msg) == \E k \in QuotaKeywords : Contains(Lower(msg), k)

\* "429 RESOURCE_EXHAUSTED"
Msg429 == <<"4","2","9"," ","R","E","S","O","U","R","C","E","_","E","X","H","A","U","S","T","E","D">>
\* "Quota exceeded"
MsgQuota == <<"Q","u","o","t","a"," ","e","x","c","e","e","d","e","d">>
\* "503 Service Unavailable"
Msg503 == <<"5","0","3"," ","S","e","r","v","i","c","e"," ","U","n","a","v","a","i","l","a","b","l","e">>
\* "Connection reset"
MsgReset == <<"C","o","n","n","e","c","t","i","o","n"," ","r","e","s","e","t">>
\* the ValueError of line 147, "Empty response from Gemini API"
MsgEmpty == <<"E","m","p","t","y"," ","r","e","s","p","o","n","s","e"," ","f","r","o","m"," ",
              "G","e","m","i","n","i"," ","A","P","I">>

\* the AttributeError of line 159 when the JSON is not an object,
\* "'list' object has no attribute 'items'"
MsgNotObject == <<"'","l","i","s","t","'"," ","o","b","j","e","c","t"," ","h","a","s"," ",
                  "n","o"," ","a","t","t","r","i","b","u","t","e"," ","'","i","t","e","m","s","'">>

\* the exceptions generate_content raises in the model
ApiErrors == {Msg429, MsgQuota, Msg503, MsgReset}

\* the messages the except clause of line 177 sees, and those line 180 takes
\* for a quota error
Messages == ApiErrors \cup {MsgEmpty, MsgNotObject}
\* a handler that takes every message for a quota error
QuotaClassified_All == Messages

QuotaClassified == {msg \in Messages : IsQuotaError(msg)}

\* what an exception is: a quota error by its message, the ValueError of
\* line 147, or another error
ErrorKind(msg) ==
    IF IsQuotaError(msg) THEN "quota" ELSE IF msg = MsgEmpty THEN "empty" ELSE "raised"

\* the kind of each message of the model
KindOf == [msg \in Messages |-> ErrorKind(msg)]

----------------------------------------------------------------------------
(* Model Cooldown Tracker: gemini_ai.py:36-59 *)

\* a mark that is not stored
mark_model_rate_limited_Dropped(flags, model_name, t) == flags

\* mark_model_rate_limited: the flags after line 41 at clock t
mark_model_rate_limited(flags, model_name, t) ==
    [m \in (DOMAIN flags) \cup {model_name} |-> IF m = model_name THEN t ELSE flags[m]]

\* a cooldown that is over as soon as the mark is as old as the cooldown
CooldownOver_AtLeast(time_since_limit, cooldown_minutes) ==
    time_since_limit >= cooldown_minutes * 60

\* line 54: the cooldown is over
CooldownOver(time_since_limit, cooldown_minutes) == time_since_limit > cooldown_minutes * 60

\* a check that finds no model cooled
is_model_rate_limited_NeverCooled(flags, model_name, cooldown_minutes, t) ==
    [ret |-> FALSE, flags |-> flags]

\* a check that takes every mark for expired and deletes it
is_model_rate_limited_ForgetsMark(flags, model_name, cooldown_minutes, t) ==
    [ret |-> FALSE, flags |-> [m \in (DOMAIN flags) \ {model_name} |-> flags[m]]]

\* is_model_rate_limited at clock t: the value returned and the flags it leaves
is_model_rate_limited(flags, model_name, cooldown_minutes, t) ==
    IF model_name \notin DOMAIN flags
    THEN [ret |-> FALSE, flags |-> flags]
    ELSE IF CooldownOver(t - flags[model_name], cooldown_minutes)
         THEN [ret |-> FALSE,
               flags |-> [m \in (DOMAIN flags) \ {model_name} |-> flags[m]]]
         ELSE [ret |-> TRUE, flags |-> flags]

\* lines 204-211: the models of the rate_limited_models entries
rate_limited_models(flags) == DOMAIN flags

\* line 225: the list comprehension over MODEL_HIERARCHY from index k on, each
\* element tested by is_model_rate_limited with the default cooldown at clock t.
\* The result: the names kept and the flags the tests leave.
RECURSIVE available_models(_, _, _)
available_models(flags, k, t) ==
    IF k > Len(MODEL_HIERARCHY)
    THEN [names |-> << >>, flags |-> flags]
    ELSE LET c == is_model_rate_limited(flags, MODEL_HIERARCHY[k], COOLDOWN_MINUTES, t)
             rest == available_models(c.flags, k + 1, t)
         IN  [names |-> IF c.ret THEN rest.names ELSE <<MODEL_HIERARCHY[k]>> \o rest.names,
              flags |-> rest.flags]

\* get_fallback_status at clock t, lines 198-226: the two lists about the
\* tracker and the flags left
get_fallback_status(flags, t) ==
    [rate_limited_models |-> rate_limited_models(flags),
     available_models |-> available_models(flags, 1, t).names,
     flags |-> available_models(flags, 1, t).flags]

\* no call was made yet
NoCheck == [model |-> "none", cooldown_minutes |-> 0, age |-> -1, ret |-> FALSE,
            removed |-> FALSE]
NoStatus == [called |-> FALSE, before |-> << >>, at |-> 0, rate_limited_models |-> {},
             available_models |-> << >>]

----------------------------------------------------------------------------
(* Rate Limiter: gemini_ai.py:62-97, run by one caller under _request_lock *)

\* line 73
WindowOver(current_time, minute_start) == current_time - minute_start >= WINDOW_SECONDS

\* a reset that starts the new window and keeps the old count
CountAfterReset_Kept(reset, request_count) == request_count

\* line 74, under the test of line 73
CountAfterReset(reset, request_count) == IF reset THEN 0 ELSE request_count

\* line 78
CapReached(request_count) == request_count >= GEMINI_REQUESTS_PER_MINUTE

\* line 79
WindowWait(current_time, minute_start) == WINDOW_SECONDS - (current_time - minute_start)

\* the minimum-interval check left out
IntervalWait_None(current_time, last_request) == 0

\* the sleep measured against the buffer instead of the minimum interval
IntervalWait_BufferOnly(current_time, last_request) ==
    IF current_time - last_request < GEMINI_MIN_REQUEST_INTERVAL
    THEN IF GEMINI_RATE_LIMIT_BUFFER - (current_time - last_request) > 0
         THEN GEMINI_RATE_LIMIT_BUFFER - (current_time - last_request)
         ELSE 0
    ELSE 0

\* the sleep of a whole window instead of the rest of the minimum interval
IntervalWait_FullWindow(current_time, last_request) ==
    IF current_time - last_request < GEMINI_MIN_REQUEST_INTERVAL
    THEN WINDOW_SECONDS
    ELSE 0

\* lines 88-90: the sleep of the minimum-interval check, 0 when there is none
IntervalWait(current_time, last_request) ==
    IF current_time - last_request < GEMINI_MIN_REQUEST_INTERVAL
    THEN GEMINI_MIN_REQUEST_INTERVAL - (current_time - last_request)
    ELSE 0

\* one whole wait_for_rate_limit call entered at clock current_time with the
\* globals last_request, request_count, minute_start; o1, o2: how late the two
\* sleeps (lines 82, 92) return.  The result: the clock and the globals at line
\* 97, and the two sleeps asked for (0: no sleep).
wait_for_rate_limit(current_time, last_request, request_count, minute_start, o1, o2) ==
    LET reset == WindowOver(current_time, minute_start)
        count1 == CountAfterReset(reset, request_count)
        start1 == IF reset THEN current_time ELSE minute_start
        wait1 == IF CapReached(count1) /\ WindowWait(current_time, start1) > 0
                 THEN WindowWait(current_time, start1) ELSE 0
        clock1 == IF wait1 > 0 THEN current_time + wait1 + o1 ELSE current_time
        count2 == IF wait1 > 0 THEN 0 ELSE count1
        start2 == IF wait1 > 0 THEN clock1 ELSE start1
        wait2 == IntervalWait(current_time, last_request)
        clock2 == IF wait2 > 0 THEN clock1 + wait2 + o2 ELSE clock1
    IN  [clock |-> clock2,
         last_request |-> clock2,
         request_count |-> count2 + 1,
         minute_start |-> start2,
         window_reset |-> reset \/ wait1 > 0,
         window_sleep |-> wait1,
         interval_sleep |-> wait2]

\* the call on the module's globals
RateLimiterCall(o1, o2) ==
    wait_for_rate_limit(now, _last_request_time, _request_count, _minute_start_time, o1, o2)

----------------------------------------------------------------------------
(* The site and the browser's page: src/web_scraper.py.  A URL is the       *)
(* sequence of its characters.                                               *)

\* str.startswith
StartsWith(s, prefix) ==
    /\ Len(prefix) <= Len(s)
    /\ \A k \in 1..Len(prefix) : s[k] = prefix[k]

\* str.split(sep) for a separator of one character
RECURSIVE Split(_, _)
Split(s, sep) ==
    IF \E k \in 1..Len(s) : s[k] = sep
    THEN LET first == CHOOSE k \in 1..Len(s) :
                          /\ s[k] = sep
                          /\ \A n \in 1..(k - 1) : s[n] # sep
         IN  <<SubSeq(s, 1, first - 1)>> \o Split(SubSeq(s, first + 1, Len(s)), sep)
    ELSE <<s>>

\* "http", the literal of line 414
Http == <<"h","t","t","p">>

\* line 416: f"{page.url.split('/')[0]}//{page.url.split('/')[2]}"
base_url(page_url) ==
    Split(page_url, "/")[1] \o <<"/","/">> \o Split(page_url, "/")[3]

\* lines 413-417: the job_link made of the href read at line 413; << >> is None
job_link_of(page_url, href) ==
    IF href # << >> /\ ~StartsWith(href, Http)
    THEN base_url(page_url) \o href
    ELSE href

Digits == <<"1","2","3","4","5","6","7","8","9">>

\* the url scrape_mode is called with, "http://a/l1", and the URLs of the
\* list pages the next-control leads to
ListUrl(p) == <<"h","t","t","p",":","/","/","a","/","l", Digits[p]>>

\* the origin of the list pages, "http://a"
ListOrigin == <<"h","t","t","p",":","/","/","a">>

\* the company_name scrape_mode is called with
company_name == "Acme"

\* the items of a list page: well-formed without a link ("plain"), with a
\* relative or an absolute href, or without the title element ("broken")
ItemKinds == {"plain", "relative", "absolute", "broken"}

\* the href attribute of the link of item j: "/j<j>", "http://b/j<j>", or None
Href(kind, j) ==
    CASE kind = "relative" -> <<"/","j", Digits[j]>>
      [] kind = "absolute" -> <<"h","t","t","p",":","/","/","b","/","j", Digits[j]>>
      [] OTHER -> << >>

\* a page that was not navigated yet (line 384)
BlankPage == [kind |-> "blank", p |-> 0, url |-> << >>]

\* list page p
ListPage(p) == [kind |-> "list", p |-> p, url |-> ListUrl(p)]

\* the detail page at job_url
DetailPage(job_url) == [kind |-> "detail", p |-> 0, url |-> job_url]

\* the elements of the page pg that selectors['job_item'] matches, in document
\* order: the items of a list page; on a detail page detail_cards elements
\* with a title and no link
Cards(pg) ==
    CASE pg.kind = "list" -> list_items
      [] pg.kind = "detail" -> [j \in 1..detail_cards |-> "plain"]
      [] OTHER -> << >>

----------------------------------------------------------------------------
(* Python values of the extraction functions: dicts are functions on their   *)
(* keys, strings are sequences of characters                                 *)

\* None
PyNone == [none |-> TRUE]

\* the str with the characters s
Str(s) == [str |-> s]

\* {}
EmptyDict == << >>

\* bool(x) of a dict or None: if selectors, if detail_selectors, if job_details
Truthy(x) == x # PyNone /\ x # EmptyDict

\* d.get(key): the value of key, None when the key is missing
Get(d, key) == IF key \in DOMAIN d THEN d[key] ELSE PyNone

\* d.update(e): the keys of both, e's value where both have the key
Update(d, e) == [k \in DOMAIN d \cup DOMAIN e |-> IF k \in DOMAIN e THEN e[k] ELSE d[k]]

\* the schema of the list selectors (gemini_ai.py:313-321)
ListSchema == {"job_item", "title", "location", "job_link", "job_id", "description",
               "pagination_next"}

\* the schema of the detail selectors (gemini_ai.py:336-343, 353-362)
DetailSchema == {"full_description", "requirements", "company_info", "job_type",
                 "experience_level", "salary", "deadline", "skills"}

\* the keys extract_job_details_fallback may set (lines 142, 168, 186)
FallbackKeys == {"full_description", "requirements", "salary"}

\* the keys extract_job_metadata may set (lines 205, 221, 241, 251)
MetadataKeys == {"page_title", "posting_date", "department", "level_detected"}

\* the keys of the base record (lines 433-440)
BaseKeys == {"title", "location", "job_id", "job_url", "preview_description", "company"}

\* a CSS selector of the response
Selector == Str(<<"d","i","v",".","x">>)

\* the values the fallback extractor and the metadata extractor find
FallbackText == Str(<<"f","b">>)
MetadataText == Str(<<"m","d">>)
\* a value of the base record: the job's URL, the job's id, the company name
BaseText == Str(<<"b","a","s","e">>)

\* lines 402-403 and 426-430: the stripped text of the card's element when
\* the list selectors have a selector for the field, None otherwise
CardField(sel, field, text) ==
    IF field \in DOMAIN sel /\ sel[field] # PyNone THEN Str(text) ELSE PyNone

\* lines 402-440: the base record of a card with a link; the job_id is read
\* only when the list selectors have a job_id selector (lines 420-421)
BaseRecord(sel, text) ==
    [k \in BaseKeys |->
        CASE k = "title" -> CardField(sel, "title", text)
          [] k = "location" -> CardField(sel, "location", text)
          [] k = "preview_description" -> CardField(sel, "description", text)
          [] k = "job_id" -> IF CardField(sel, "job_id", text) = PyNone
                             THEN PyNone ELSE BaseText
          [] OTHER -> BaseText]

\* the attributes extract_job_id reads, in the order of line 39
IdAttributes == <<"data-id", "data-job-id", "data-position-id", "id">>

\* an element without link target, attributes or text
NoElement == [href |-> PyNone, attrs |-> [a \in {} |-> PyNone], text |-> << >>]

\* no extract_job_id call is followed
InitJobIdIdle ==
    /\ element = NoElement
    /\ raises_at = "none"
    /\ jpc = "idle"
    /\ extracted_id = PyNone

\* no scout_mode call and no scrape of a company was made
NoScout == [n |-> 0]
NoScrape == [n |-> 0]

\* no batch operation runs and CONFIGURATIONS_FILE does not exist (utils.py:44-45)
InitStoreIdle ==
    /\ configurations = EmptyDict
    /\ batch_pc = "idle"
    /\ company_idx = 0
    /\ last_scout = NoScout
    /\ last_scrape = NoScrape

\* no extraction is followed
InitPure ==
    /\ InitJobIdIdle
    /\ InitStoreIdle
    /\ card_text = << >>
    /\ list_response = PyNone
    /\ saved = PyNone
    /\ parsed_response = PyNone
    /\ detail_arg = EmptyDict
    /\ ai_text = << >>
    /\ unmatched = {}
    /\ fallback_extracted = EmptyDict
    /\ metadata = EmptyDict
    /\ details = EmptyDict
    /\ ai_details = EmptyDict
    /\ merged = EmptyDict
    /\ queried = {}
    /\ job_data = EmptyDict
    /\ epc = "idle"
    /\ navigated = "unset"

----------------------------------------------------------------------------
(* Model Fallback Client: gemini_ai.py:111-195 *)

NoSwitch == [from |-> 0, to |-> 0, retry |-> 0, rate |-> 0, elapsed |-> 0]
NoPending == [from |-> 0, retry |-> 0, rate |-> 0]
NoGeneration == [model |-> "none", outcome |-> "none"]
NoAcquisition == [n |-> 0, count |-> 0]

\* the clock, the globals of lines 21, 23 and 24, and the models whose mark
\* is inside its cooldown at that clock
RateGlobals(clock) ==
    [clock |-> clock, request_count |-> _request_count,
     minute_start |-> _minute_start_time, last_request |-> _last_request_time,
     cooled |-> {m \in DOMAIN _model_rate_limit_flags :
                    clock - _model_rate_limit_flags[m] <= COOLDOWN_MINUTES * 60}]

CurrentModel == MODEL_HIERARCHY[model_idx]

\* the idle times modelled between two calls: none, and the time after which
\* a mark is exactly cooldown_minutes old, or a second older
IdleGaps ==
    {0} \cup { _model_rate_limit_flags[m] + COOLDOWN_MINUTES * 60 + e - now :
                    m \in DOMAIN _model_rate_limit_flags, e \in {0, 1} }

\* a caller enters call_gemini_with_fallback (lines 111-119), gap seconds after
\* the previous call returned
StartCall ==
    /\ pc = "idle"
    /\ calls < MaxCalls
    /\ \E gap \in IdleGaps :
          /\ gap >= 0
          /\ now + gap <= MaxTime
          /\ now' = now + gap
    /\ pc' = "select"
    /\ model_idx' = 1
    /\ attempt' = 0
    /\ result' = "unset"
    /\ calls' = calls + 1
    /\ gen_calls' = [m \in Models |-> 0]
    /\ quota_at' = [m \in Models |-> -1]
    /\ pending' = NoPending
    /\ last_switch' = NoSwitch
    /\ eligible' = {m \in Models : last_mark[m] # -1
                                    /\ now' - last_mark[m] > COOLDOWN_MINUTES * 60}
    /\ UNCHANGED <<rate_vars, _model_rate_limit_flags, generations>>
    /\ skipped' = {}
    /\ last_gen' = NoGeneration
    /\ attempts_log' = << >>
    /\ sleeps_log' = << >>
    /\ UNCHANGED <<last_mark, gen_in_cooldown, skipped_eligible>>
    /\ acquired' = NoAcquisition
    /\ at_entry' = RateGlobals(now')
    /\ UNCHANGED other_vars

\* the head of the for loop, lines 119-134, and its end, lines 194-195
SelectModel ==
    /\ pc = "select"
    /\ IF model_idx > Len(MODEL_HIERARCHY)
       THEN /\ pc' = "done"
            /\ result' = "None"
            /\ UNCHANGED <<model_idx, attempt, _model_rate_limit_flags, skipped_eligible,
                           skipped, attempts_log, sleeps_log>>
       ELSE LET chk == is_model_rate_limited(_model_rate_limit_flags, CurrentModel,
                                             COOLDOWN_MINUTES, now)
            IN  /\ _model_rate_limit_flags' = chk.flags
                /\ skipped_eligible' =
                       (skipped_eligible \/ (chk.ret /\ CurrentModel \in eligible))
                /\ \E init_ok \in BOOLEAN :
                      IF chk.ret \/ ~init_ok
                      THEN /\ model_idx' = model_idx + 1
                           /\ skipped' = skipped \cup {CurrentModel}
                           /\ UNCHANGED <<pc, attempt, attempts_log, sleeps_log>>
                      ELSE /\ pc' = "wait"
                           /\ attempt' = 0
                           /\ attempts_log' = << >>
                           /\ sleeps_log' = << >>
                           /\ UNCHANGED <<model_idx, skipped>>
                /\ UNCHANGED result
    /\ UNCHANGED <<now, rate_vars, calls, generations, gen_calls, quota_at, pending,
                   last_switch, last_mark, eligible, gen_in_cooldown, last_gen>>
    /\ UNCHANGED <<acquired, at_entry, other_vars>>

\* line 142: wait_for_rate_limit() before the generation call
Acquire ==
    /\ pc = "wait"
    /\ LET r == RateLimiterCall(0, 0)
       IN  /\ r.clock <= MaxTime
           /\ now' = r.clock
           /\ _last_request_time' = r.last_request
           /\ _request_count' = r.request_count
           /\ _minute_start_time' = r.minute_start
           /\ pending' = IF pending.from = 0 THEN pending
                         ELSE [pending EXCEPT !.rate = @ + r.window_sleep + r.interval_sleep]
    /\ pc' = "generate"
    /\ UNCHANGED <<rl_sleep, prev_grant, window_grants>>
    /\ UNCHANGED <<_model_rate_limit_flags, model_idx, attempt, result, calls,
                   generations, gen_calls, quota_at, last_switch, last_mark, eligible,
                   gen_in_cooldown, skipped_eligible, skipped, last_gen, attempts_log,
                   sleeps_log>>
    /\ acquired' = [n |-> acquired.n + 1, count |-> _request_count']
    /\ UNCHANGED <<at_entry, other_vars>>

\* what the ghost variables record of a generation call to the current model
Issued ==
    /\ generations < MaxGenerations
    /\ generations' = generations + 1
    /\ gen_calls' = [gen_calls EXCEPT ![CurrentModel] = @ + 1]
    /\ last_switch' = IF pending.from = 0 THEN last_switch
                      ELSE [from |-> pending.from, to |-> model_idx,
                            retry |-> pending.retry, rate |-> pending.rate,
                            elapsed |-> now - last_mark[MODEL_HIERARCHY[pending.from]]]
    /\ gen_in_cooldown' =
           (gen_in_cooldown \/ (/\ last_mark[CurrentModel] # -1
                                /\ now - last_mark[CurrentModel] <= COOLDOWN_MINUTES * 60))

\* a failed attempt after which the loop gives up the model at once
FailedAttempt_NoRetry ==
    /\ pc' = "select"
    /\ model_idx' = model_idx + 1
    /\ UNCHANGED attempt

FailedAttempt_ExtraAttempt ==
    IF attempt < MAX_RETRY_ATTEMPTS
    THEN /\ pc' = "retry_sleep"
         /\ UNCHANGED <<model_idx, attempt>>
    ELSE /\ pc' = "select"
         /\ model_idx' = model_idx + 1
         /\ UNCHANGED attempt

FailedAttempt_OneRetry ==
    IF attempt < MAX_RETRY_ATTEMPTS - 2
    THEN /\ pc' = "retry_sleep"
         /\ UNCHANGED <<model_idx, attempt>>
    ELSE /\ pc' = "select"
         /\ model_idx' = model_idx + 1
         /\ UNCHANGED attempt

\* lines 169-175 and 186-190: a failed attempt that is not a quota error
FailedAttempt ==
    IF attempt < MAX_RETRY_ATTEMPTS - 1
    THEN /\ pc' = "retry_sleep"
         /\ UNCHANGED <<model_idx, attempt>>
    ELSE /\ pc' = "select"
         /\ model_idx' = model_idx + 1
         /\ UNCHANGED attempt

\* lines 144-167: the call answers with valid JSON, which is returned
GenerateOk ==
    /\ pc = "generate"
    /\ \E lat \in {0, MaxLatency} :
          /\ now + lat <= MaxTime
          /\ now' = now + lat
    /\ Issued
    /\ pending' = NoPending
    /\ result' = CurrentModel
    /\ last_gen' = [model |-> CurrentModel, outcome |-> "ok"]
    /\ attempts_log' = Append(attempts_log, "ok")
    /\ pc' = "done"
    /\ UNCHANGED <<rate_vars, _model_rate_limit_flags, model_idx, attempt, calls, quota_at,
                   last_mark, eligible, skipped_eligible, skipped, sleeps_log>>
    /\ UNCHANGED <<acquired, at_entry, other_vars>>

\* lines 156, 169-175: the answer is not JSON
GenerateMalformed ==
    /\ pc = "generate"
    /\ \E lat \in {0, MaxLatency} :
          /\ now + lat <= MaxTime
          /\ now' = now + lat
    /\ Issued
    /\ pending' = NoPending
    /\ FailedAttempt
    /\ last_gen' = [model |-> CurrentModel, outcome |-> "malformed"]
    /\ attempts_log' = Append(attempts_log, "malformed")
    /\ UNCHANGED <<rate_vars, _model_rate_limit_flags, result, calls, quota_at,
                   last_mark, eligible, skipped_eligible, skipped, sleeps_log>>
    /\ UNCHANGED <<acquired, at_entry, other_vars>>

\* a quota error whose handler goes on like the handler of any other error
QuotaBreak_Retries ==
    /\ FailedAttempt

\* a quota error after which the hierarchy is walked from its first model again
QuotaBreak_StartsOver ==
    /\ pc' = "select"
    /\ model_idx' = 1
    /\ UNCHANGED attempt

\* lines 183-184, after the mark: break out of the retry loop, to the next model
QuotaBreak ==
    /\ pc' = "select"
    /\ model_idx' = model_idx + 1
    /\ UNCHANGED attempt

\* lines 144-147, 177-190: generate_content raises, or answers with nothing
GenerateRaises ==
    /\ pc = "generate"
    /\ Issued
    /\ \E lat \in {0, MaxLatency}, msg \in Messages :
          /\ now + lat <= MaxTime
          /\ now' = now + lat
          /\ IF msg \in QuotaClassified
             THEN /\ _model_rate_limit_flags' =
                         mark_model_rate_limited(_model_rate_limit_flags, CurrentModel, now')
                  /\ last_mark' = [last_mark EXCEPT ![CurrentModel] = now']
                  /\ quota_at' = [quota_at EXCEPT ![CurrentModel] = gen_calls'[CurrentModel]]
                  /\ pending' = [from |-> model_idx, retry |-> 0, rate |-> 0]
                  /\ last_gen' = [model |-> CurrentModel, outcome |-> KindOf[msg]]
                  /\ attempts_log' = Append(attempts_log, "quota")
                  /\ QuotaBreak
             ELSE /\ FailedAttempt
                  /\ pending' = NoPending
                  /\ last_gen' = [model |-> CurrentModel, outcome |-> KindOf[msg]]
                  /\ attempts_log' = Append(attempts_log, "raised")
                  /\ UNCHANGED <<_model_rate_limit_flags, quota_at, last_mark>>
    /\ UNCHANGED <<rate_vars, result, calls, eligible, skipped_eligible, skipped, sleeps_log>>
    /\ UNCHANGED <<acquired, at_entry, other_vars>>

\* a retry that does not wait
RetrySleep_NoDelay ==
    /\ pc = "retry_sleep"
    /\ now' = now
    /\ attempt' = attempt + 1
    /\ pc' = "wait"
    /\ pending' = pending
    /\ UNCHANGED <<rate_vars, _model_rate_limit_flags, model_idx, result, calls,
                   generations, gen_calls, quota_at, last_switch, last_mark, eligible,
                   gen_in_cooldown, skipped_eligible, skipped, last_gen, attempts_log>>
    /\ sleeps_log' = Append(sleeps_log, [after |-> Len(attempts_log), seconds |-> now' - now])
    /\ UNCHANGED <<acquired, at_entry, other_vars>>

\* a retry that goes to the generation call without wait_for_rate_limit
RetrySleep_NoAcquire ==
    /\ pc = "retry_sleep"
    /\ now + RETRY_DELAY_SECONDS <= MaxTime
    /\ now' = now + RETRY_DELAY_SECONDS
    /\ attempt' = attempt + 1
    /\ pc' = "generate"
    /\ pending' = IF pending.from = 0 THEN pending
                  ELSE [pending EXCEPT !.retry = @ + RETRY_DELAY_SECONDS]
    /\ UNCHANGED <<rate_vars, _model_rate_limit_flags, model_idx, result, calls,
                   generations, gen_calls, quota_at, last_switch, last_mark, eligible,
                   gen_in_cooldown, skipped_eligible, skipped, last_gen, attempts_log>>
    /\ sleeps_log' = Append(sleeps_log, [after |-> Len(attempts_log), seconds |-> now' - now])
    /\ UNCHANGED <<acquired, at_entry, other_vars>>

\* lines 174 and 189: time.sleep(RETRY_DELAY_SECONDS), then the next attempt
RetrySleep ==
    /\ pc = "retry_sleep"
    /\ now + RETRY_DELAY_SECONDS <= MaxTime
    /\ now' = now + RETRY_DELAY_SECONDS
    /\ attempt' = attempt + 1
    /\ pc' = "wait"
    /\ pending' = IF pending.from = 0 THEN pending
                  ELSE [pending EXCEPT !.retry = @ + RETRY_DELAY_SECONDS]
    /\ UNCHANGED <<rate_vars, _model_rate_limit_flags, model_idx, result, calls,
                   generations, gen_calls, quota_at, last_switch, last_mark, eligible,
                   gen_in_cooldown, skipped_eligible, skipped, last_gen, attempts_log>>
    /\ sleeps_log' = Append(sleeps_log, [after |-> Len(attempts_log), seconds |-> now' - now])
    /\ UNCHANGED <<acquired, at_entry, other_vars>>

\* the call returns to its caller (lines 167, 195)
Return ==
    /\ pc = "done"
    /\ pc' = "idle"
    /\ UNCHANGED <<now, rate_vars, _model_rate_limit_flags, model_idx, attempt, result,
                   calls, generations, gen_calls, quota_at, pending, last_switch, last_mark,
                   eligible, gen_in_cooldown, skipped_eligible, skipped, last_gen>>
    /\ attempts_log' = << >>
    /\ sleeps_log' = << >>
    /\ UNCHANGED <<acquired, at_entry, other_vars>>

\* lines 21, 23 and 24 at the import of gemini_ai.py
InitLimiter ==
    /\ now = ImportTime
    /\ _last_request_time = 0
    /\ _request_count = 0
    /\ _minute_start_time = ImportTime

\* the rest of gemini_ai.py after its import, and no call made yet
InitClient ==
    /\ _model_rate_limit_flags = << >>
    /\ rl_sleep = [window |-> 0, interval |-> 0]
    /\ prev_grant = 0
    /\ window_grants = 0
    /\ pc = "idle"
    /\ model_idx = 1
    /\ attempt = 0
    /\ result = "unset"
    /\ calls = 0
    /\ generations = 0
    /\ gen_calls = [m \in Models |-> 0]
    /\ quota_at = [m \in Models |-> -1]
    /\ pending = NoPending
    /\ last_switch = NoSwitch
    /\ last_mark = [m \in Models |-> -1]
    /\ eligible = {}
    /\ gen_in_cooldown = FALSE
    /\ skipped_eligible = FALSE
    /\ skipped = {}
    /\ last_gen = NoGeneration
    /\ attempts_log = << >>
    /\ sleeps_log = << >>
    /\ acquired = NoAcquisition
    /\ at_entry = RateGlobals(ImportTime)
    /\ _request_lock = "free"
    /\ tpc = [t \in Threads |-> "out"]
    /\ t_current_time = [t \in Threads |-> 0]
    /\ wake = [t \in Threads |-> 0]
    /\ loaded = [t \in Threads |-> 0]
    /\ last_grantee = "none"
    /\ prev_grantee = "none"
    /\ kpc = [t \in Threads |-> "idle"]
    /\ k_model = [t \in Threads |-> "none"]
    /\ k_since = [t \in Threads |-> 0]
    /\ k_result = [t \in Threads |-> "none"]
    /\ fresh_removed = FALSE
    /\ cool_ticks = 0
    /\ last_check = NoCheck
    /\ last_status = NoStatus
    /\ tracker_ticks = 0

\* gemini_ai.py after its import
InitGemini ==
    /\ InitLimiter
    /\ InitClient

\* scrape_mode before line 383
InitSession ==
    /\ page = BlankPage
    /\ spc = "start"
    /\ item_i = 0
    /\ job_cards = 0
    /\ job_detail_analyzed = FALSE
    /\ detail_selectors = "None"
    /\ all_jobs = << >>
    /\ page_count = 0
    /\ browser_open = FALSE
    /\ temp_pages = 0
    /\ discoveries = 0
    /\ env_fault = FALSE
    /\ wait_failed_on = 0
    /\ scout_pc = "start"
    /\ scout_browser_open = FALSE

\* no scrape session is followed
Init ==
    /\ InitGemini
    /\ InitSession
    /\ InitPure
    /\ list_items = << >>
    /\ num_pages = 1
    /\ detail_cards = 0
    /\ selectors = [job_link |-> FALSE, pagination_next |-> FALSE]
    /\ extract_full_details = FALSE

Next ==
    \/ StartCall
    \/ SelectModel
    \/ Acquire
    \/ GenerateOk
    \/ GenerateMalformed
    \/ GenerateRaises
    \/ RetrySleep
    \/ Return

Spec == Init /\ [][Next]_vars

----------------------------------------------------------------------------
(* The Rate Limiter alone: any sequence of wait_for_rate_limit calls by one  *)
(* caller, at any times.                                                     *)

\* a whole wait_for_rate_limit call (lines 62-97)
RateAcquire ==
    /\ \E o1, o2 \in 0..MaxOversleep :
          LET r == RateLimiterCall(o1, o2)
          IN  /\ r.window_sleep = 0 => o1 = 0
              /\ r.interval_sleep = 0 => o2 = 0
              /\ r.clock <= RateHorizon
              /\ now' = r.clock
              /\ _last_request_time' = r.last_request
              /\ _request_count' = r.request_count
              /\ _minute_start_time' = r.minute_start
              /\ rl_sleep' = [window |-> r.window_sleep, interval |-> r.interval_sleep]
              /\ prev_grant' = _last_request_time
              /\ window_grants' = IF r.window_reset THEN 1 ELSE window_grants + 1
    /\ UNCHANGED <<_model_rate_limit_flags, client_vars>>
    /\ UNCHANGED other_vars

\* a second passes
RateTick ==
    /\ now < RateHorizon
    /\ now' = now + 1
    /\ UNCHANGED <<rate_vars, _model_rate_limit_flags, client_vars>>
    /\ UNCHANGED other_vars

NextRate ==
    \/ RateAcquire
    \/ RateTick

SpecRate == Init /\ [][NextRate]_vars

----------------------------------------------------------------------------
(* One wait_for_rate_limit call on any values of its globals: the window     *)
(* started up to a window ago, counts up to the cap, the last grant up to    *)
(* the minimum interval ago.  The shipped tier keeps the count under the cap *)
(* by its spacing of 9 s; a tier with a smaller buffer_seconds               *)
(* (config.py:51-55, 'custom') lets it reach the cap.                        *)

\* how long before the call the window started and the last grant was made
WindowAges == {WINDOW_SECONDS - 12, WINDOW_SECONDS - 5, WINDOW_SECONDS - 1, WINDOW_SECONDS}
GrantAges == {0, 3, GEMINI_MIN_REQUEST_INTERVAL - 1, GEMINI_MIN_REQUEST_INTERVAL,
              GEMINI_MIN_REQUEST_INTERVAL + 4}

InitLimiterCall ==
    /\ now \in (ImportTime + WINDOW_SECONDS)..(ImportTime + WINDOW_SECONDS + 2)
    /\ \E age \in WindowAges : _minute_start_time = now - age
    /\ \E age \in GrantAges : _last_request_time = now - age
    /\ _request_count \in {1, GEMINI_REQUESTS_PER_MINUTE - 1, GEMINI_REQUESTS_PER_MINUTE}
    /\ InitClient
    /\ InitSession
    /\ InitPure
    /\ list_items = << >>
    /\ num_pages = 1
    /\ detail_cards = 0
    /\ selectors = [job_link |-> FALSE, pagination_next |-> FALSE]
    /\ extract_full_details = FALSE

\* a whole wait_for_rate_limit call (lines 62-97), with what the globals were
\* when it was entered
LimiterCall ==
    /\ \E o1, o2 \in 0..MaxOversleep :
          LET r == RateLimiterCall(o1, o2)
          IN  /\ r.window_sleep = 0 => o1 = 0
              /\ r.interval_sleep = 0 => o2 = 0
              /\ r.clock <= LimiterHorizon
              /\ now' = r.clock
              /\ _last_request_time' = r.last_request
              /\ _request_count' = r.request_count
              /\ _minute_start_time' = r.minute_start
              /\ rl_sleep' = [window |-> r.window_sleep, interval |-> r.interval_sleep]
              /\ prev_grant' = _last_request_time
              /\ window_grants' = IF r.window_reset THEN 1 ELSE window_grants + 1
    /\ at_entry' = RateGlobals(now)
    /\ UNCHANGED <<pc, model_idx, attempt, result, calls, generations, gen_calls, quota_at,
                   pending, last_switch, last_mark, eligible, gen_in_cooldown,
                   skipped_eligible, skipped, last_gen, attempts_log, sleeps_log, acquired>>
    /\ UNCHANGED <<_model_rate_limit_flags, other_vars>>

\* a second passes
LimiterTick ==
    /\ now < LimiterHorizon
    /\ now' = now + 1
    /\ UNCHANGED <<rate_vars, _model_rate_limit_flags, client_vars>>
    /\ UNCHANGED other_vars

NextLimiterCall ==
    \/ LimiterCall
    \/ LimiterTick

SpecLimiterCall == InitLimiterCall /\ [][NextLimiterCall]_vars

----------------------------------------------------------------------------
(* The Rate Limiter under concurrent callers: gemini_ai.py:62-97, one step   *)
(* per access to the clock or to a global.  A thread that sleeps keeps the   *)
(* lock; the clock and the other threads go on.                              *)

\* what the thread actions leave alone
thread_frame == <<_model_rate_limit_flags, rl_sleep, client_vars, cool_vars, scrape_vars,
                  tracker_vars, pure_vars>>

\* an acquire that never blocks
CanAcquire_Always(lock) == TRUE

\* Lock.acquire: blocks while another thread holds the lock
CanAcquire(lock) == lock = "free"

\* line 68: `with _request_lock:` is entered
Enter(t) ==
    /\ tpc[t] = "out"
    /\ CanAcquire(_request_lock)
    /\ _request_lock' = t
    /\ tpc' = [tpc EXCEPT ![t] = "L70"]
    /\ UNCHANGED <<now, rate_vars, t_current_time, wake, loaded, last_grantee, prev_grantee>>
    /\ UNCHANGED thread_frame

\* line 70
ReadClock(t) ==
    /\ tpc[t] = "L70"
    /\ t_current_time' = [t_current_time EXCEPT ![t] = now]
    /\ tpc' = [tpc EXCEPT ![t] = "L73"]
    /\ UNCHANGED <<now, rate_vars, _request_lock, wake, loaded, last_grantee, prev_grantee>>
    /\ UNCHANGED thread_frame

\* lines 73-75
ResetWindow(t) ==
    /\ tpc[t] = "L73"
    /\ LET reset == WindowOver(t_current_time[t], _minute_start_time)
       IN  /\ _request_count' = CountAfterReset(reset, _request_count)
           /\ _minute_start_time' = IF reset THEN t_current_time[t] ELSE _minute_start_time
           /\ window_grants' = IF reset THEN 0 ELSE window_grants
    /\ tpc' = [tpc EXCEPT ![t] = "L78"]
    /\ UNCHANGED <<now, _last_request_time, rl_sleep, prev_grant>>
    /\ UNCHANGED <<_request_lock, t_current_time, wake, loaded, last_grantee, prev_grantee>>
    /\ UNCHANGED <<_model_rate_limit_flags, client_vars, cool_vars, scrape_vars, tracker_vars,
                   pure_vars>>

\* lines 78-82: the cap check, up to the call of time.sleep
CheckCap(t) ==
    /\ tpc[t] = "L78"
    /\ IF CapReached(_request_count)
          /\ WindowWait(t_current_time[t], _minute_start_time) > 0
       THEN /\ wake' = [wake EXCEPT ![t] =
                           now + WindowWait(t_current_time[t], _minute_start_time)]
            /\ tpc' = [tpc EXCEPT ![t] = "L82"]
       ELSE /\ tpc' = [tpc EXCEPT ![t] = "L88"]
            /\ UNCHANGED wake
    /\ UNCHANGED <<now, rate_vars, _request_lock, t_current_time, loaded, last_grantee,
                   prev_grantee>>
    /\ UNCHANGED thread_frame

\* lines 88-92: the minimum-interval check, up to the call of time.sleep
CheckInterval(t) ==
    /\ tpc[t] = "L88"
    /\ LET wait_time == IntervalWait(t_current_time[t], _last_request_time)
       IN  IF wait_time > 0
           THEN /\ wake' = [wake EXCEPT ![t] = now + wait_time]
                /\ tpc' = [tpc EXCEPT ![t] = "L92"]
           ELSE /\ tpc' = [tpc EXCEPT ![t] = "L95"]
                /\ UNCHANGED wake
    /\ UNCHANGED <<now, rate_vars, _request_lock, t_current_time, loaded, last_grantee,
                   prev_grantee>>
    /\ UNCHANGED thread_frame

\* time.sleep returns (lines 82, 92), no earlier than asked; after the sleep of
\* line 82 the window is restarted (lines 84-85)
Wake(t) ==
    /\ tpc[t] \in {"L82", "L92"}
    /\ now >= wake[t]
    /\ IF tpc[t] = "L82"
       THEN /\ _request_count' = 0
            /\ _minute_start_time' = now
            /\ window_grants' = 0
            /\ tpc' = [tpc EXCEPT ![t] = "L88"]
       ELSE /\ tpc' = [tpc EXCEPT ![t] = "L95"]
            /\ UNCHANGED <<_request_count, _minute_start_time, window_grants>>
    /\ UNCHANGED <<now, _last_request_time, rl_sleep, prev_grant>>
    /\ UNCHANGED <<_request_lock, t_current_time, wake, loaded, last_grantee, prev_grantee>>
    /\ UNCHANGED <<_model_rate_limit_flags, client_vars, cool_vars, scrape_vars, tracker_vars,
                   pure_vars>>

\* line 95
Stamp(t) ==
    /\ tpc[t] = "L95"
    /\ _last_request_time' = now
    /\ prev_grant' = _last_request_time
    /\ last_grantee' = t
    /\ prev_grantee' = last_grantee
    /\ tpc' = [tpc EXCEPT ![t] = "L96"]
    /\ UNCHANGED <<now, _request_count, _minute_start_time, rl_sleep, window_grants>>
    /\ UNCHANGED <<_request_lock, t_current_time, wake, loaded>>
    /\ UNCHANGED thread_frame

\* line 96, `_request_count += 1`: the read of the global
LoadCount(t) ==
    /\ tpc[t] = "L96"
    /\ loaded' = [loaded EXCEPT ![t] = _request_count]
    /\ tpc' = [tpc EXCEPT ![t] = "L96_store"]
    /\ UNCHANGED <<now, rate_vars, _request_lock, t_current_time, wake, last_grantee,
                   prev_grantee>>
    /\ UNCHANGED thread_frame

\* line 96, `_request_count += 1`: the write of the global
StoreCount(t) ==
    /\ tpc[t] = "L96_store"
    /\ _request_count' = loaded[t] + 1
    /\ window_grants' = window_grants + 1
    /\ tpc' = [tpc EXCEPT ![t] = "L97"]
    /\ UNCHANGED <<now, _last_request_time, _minute_start_time, rl_sleep, prev_grant>>
    /\ UNCHANGED <<_request_lock, t_current_time, wake, loaded, last_grantee, prev_grantee>>
    /\ UNCHANGED <<_model_rate_limit_flags, client_vars, cool_vars, scrape_vars, tracker_vars,
                   pure_vars>>

\* the end of the with block: the lock is released, the locals are gone
Leave(t) ==
    /\ tpc[t] = "L97"
    /\ _request_lock' = "free"
    /\ tpc' = [tpc EXCEPT ![t] = "out"]
    /\ t_current_time' = [t_current_time EXCEPT ![t] = 0]
    /\ wake' = [wake EXCEPT ![t] = 0]
    /\ loaded' = [loaded EXCEPT ![t] = 0]
    /\ UNCHANGED <<now, rate_vars, last_grantee, prev_grantee>>
    /\ UNCHANGED thread_frame

\* a second passes, or, while no thread is in wait_for_rate_limit, a whole
\* window length
ThreadTick ==
    /\ \E d \in {1, WINDOW_SECONDS} :
          /\ d = 1 => (now - ImportTime) % WINDOW_SECONDS < ThreadSpan
          /\ d = WINDOW_SECONDS => \A t \in Threads : tpc[t] = "out"
          /\ now + d <= ThreadHorizon
          /\ now' = now + d
    /\ UNCHANGED <<rate_vars, thread_vars>>
    /\ UNCHANGED <<_model_rate_limit_flags, client_vars, cool_vars, scrape_vars, tracker_vars,
                   pure_vars>>

NextThreads ==
    \/ \E t \in Threads : Enter(t)
    \/ \E t \in Threads : ReadClock(t)
    \/ \E t \in Threads : ResetWindow(t)
    \/ \E t \in Threads : CheckCap(t)
    \/ \E t \in Threads : CheckInterval(t)
    \/ \E t \in Threads : Wake(t)
    \/ \E t \in Threads : Stamp(t)
    \/ \E t \in Threads : LoadCount(t)
    \/ \E t \in Threads : StoreCount(t)
    \/ \E t \in Threads : Leave(t)
    \/ ThreadTick

SpecThreads == Init /\ [][NextThreads]_vars

----------------------------------------------------------------------------
(* The Model Cooldown Tracker under concurrent callers: gemini_ai.py:36-59,  *)
(* one step per access to _model_rate_limit_flags.  The functions take no    *)
(* lock.                                                                     *)

\* what the tracker actions leave alone
cool_frame == <<rate_vars, client_vars, thread_vars, scrape_vars, tracker_vars, pure_vars>>

\* the models the concurrent callers ask about
CoolModels == {MODEL_HIERARCHY[1], MODEL_HIERARCHY[2]}

\* a call has returned (or raised): its locals are gone
Returned(t, outcome) ==
    /\ kpc' = [kpc EXCEPT ![t] = "idle"]
    /\ k_model' = [k_model EXCEPT ![t] = "none"]
    /\ k_since' = [k_since EXCEPT ![t] = 0]
    /\ k_result' = [k_result EXCEPT ![t] = outcome]

\* mark_model_rate_limited(model_name), lines 36-42: one dict store
Mark(t) ==
    /\ kpc[t] = "idle"
    /\ \E m \in CoolModels :
          _model_rate_limit_flags' = mark_model_rate_limited(_model_rate_limit_flags, m, now)
    /\ k_result' = [k_result EXCEPT ![t] = "None"]
    /\ UNCHANGED <<now, kpc, k_model, k_since, fresh_removed, cool_ticks>>
    /\ UNCHANGED cool_frame

\* is_model_rate_limited(model_name) is called (line 45)
Check(t) ==
    /\ kpc[t] = "idle"
    /\ \E m \in CoolModels : k_model' = [k_model EXCEPT ![t] = m]
    /\ kpc' = [kpc EXCEPT ![t] = "L50"]
    /\ k_result' = [k_result EXCEPT ![t] = "running"]
    /\ UNCHANGED <<now, _model_rate_limit_flags, k_since, fresh_removed, cool_ticks>>
    /\ UNCHANGED cool_frame

\* lines 50-51
TestMarked(t) ==
    /\ kpc[t] = "L50"
    /\ IF k_model[t] \notin DOMAIN _model_rate_limit_flags
       THEN Returned(t, "False")
       ELSE /\ kpc' = [kpc EXCEPT ![t] = "L53"]
            /\ UNCHANGED <<k_model, k_since, k_result>>
    /\ UNCHANGED <<now, _model_rate_limit_flags, fresh_removed, cool_ticks>>
    /\ UNCHANGED cool_frame

\* lines 53-54 and 59: the subscript of line 53 raises KeyError when the key is gone
ReadMark(t) ==
    /\ kpc[t] = "L53"
    /\ IF k_model[t] \notin DOMAIN _model_rate_limit_flags
       THEN Returned(t, "KeyError")
       ELSE LET time_since_limit == now - _model_rate_limit_flags[k_model[t]]
            IN  IF CooldownOver(time_since_limit, COOLDOWN_MINUTES)
                THEN /\ kpc' = [kpc EXCEPT ![t] = "L56"]
                     /\ k_since' = [k_since EXCEPT ![t] = time_since_limit]
                     /\ UNCHANGED <<k_model, k_result>>
                ELSE Returned(t, "True")
    /\ UNCHANGED <<now, _model_rate_limit_flags, fresh_removed, cool_ticks>>
    /\ UNCHANGED cool_frame

\* lines 56-57: del raises KeyError when the key is gone
DeleteMark(t) ==
    /\ kpc[t] = "L56"
    /\ IF k_model[t] \notin DOMAIN _model_rate_limit_flags
       THEN /\ Returned(t, "KeyError")
            /\ UNCHANGED <<_model_rate_limit_flags, fresh_removed>>
       ELSE /\ _model_rate_limit_flags' =
                   [m \in (DOMAIN _model_rate_limit_flags) \ {k_model[t]} |->
                        _model_rate_limit_flags[m]]
            /\ fresh_removed' =
                   (fresh_removed \/ ~CooldownOver(now - _model_rate_limit_flags[k_model[t]],
                                                   COOLDOWN_MINUTES))
            /\ Returned(t, "False")
    /\ UNCHANGED <<now, cool_ticks>>
    /\ UNCHANGED cool_frame

\* the clock goes on: by a second, or by the length of the cooldown
CoolTick ==
    /\ cool_ticks < MaxCoolTicks
    /\ cool_ticks' = cool_ticks + 1
    /\ \E d \in {1, COOLDOWN_MINUTES * 60} : now' = now + d
    /\ UNCHANGED <<_model_rate_limit_flags, kpc, k_model, k_since, k_result, fresh_removed>>
    /\ UNCHANGED cool_frame

NextCooldown ==
    \/ \E t \in Threads : Mark(t)
    \/ \E t \in Threads : Check(t)
    \/ \E t \in Threads : TestMarked(t)
    \/ \E t \in Threads : ReadMark(t)
    \/ \E t \in Threads : DeleteMark(t)
    \/ CoolTick

SpecCooldown == Init /\ [][NextCooldown]_vars

----------------------------------------------------------------------------
(* The extraction walk: src/web_scraper.py:350-533, scrape_mode called with  *)
(* selectors, one step per list-page wait, per item and per pagination check *)

\* what scrape_mode leaves alone
scrape_frame == <<now, rate_vars, _model_rate_limit_flags, client_vars, thread_vars,
                  cool_vars, site_vars, tracker_vars, pure_vars>>

\* the sites and the calls followed
InitScrape ==
    /\ InitGemini
    /\ InitSession
    /\ InitPure
    /\ list_items \in UNION {[1..n -> ItemKinds] : n \in 0..MaxItems}
    /\ num_pages \in 1..MaxPages
    /\ detail_cards \in 0..MaxDetailCards
    /\ selectors \in [job_link : BOOLEAN, pagination_next : BOOLEAN]
    /\ extract_full_details \in BOOLEAN

\* lines 383-388: the browser is launched and the page navigated to url
Launch ==
    /\ spc = "start"
    /\ scout_pc = "done"
    /\ \E outcome \in {"opened", "goto raised", "new_page raised"} :
          CASE outcome = "opened" ->
                  /\ browser_open' = TRUE
                  /\ page' = ListPage(1)
                  /\ page_count' = 1
                  /\ spc' = "wait"
                  /\ UNCHANGED env_fault
            [] outcome = "goto raised" ->
                  /\ browser_open' = TRUE
                  /\ spc' = "finally"
                  /\ env_fault' = TRUE
                  /\ UNCHANGED <<page, page_count>>
            [] OTHER ->
                  \* line 384 is outside the try: the exception leaves scrape_mode
                  \* through the with block of line 382, which stops Playwright
                  /\ browser_open' = FALSE
                  /\ spc' = "raised"
                  /\ env_fault' = TRUE
                  /\ UNCHANGED <<page, page_count>>
    /\ UNCHANGED <<item_i, job_cards, job_detail_analyzed, detail_selectors, all_jobs,
                   temp_pages, discoveries>>
    /\ UNCHANGED <<wait_failed_on, scout_vars, scrape_frame>>

\* lines 392-397: wait for the list container, take the locators of the cards
WaitCards ==
    /\ spc = "wait"
    /\ \E rendered \in BOOLEAN :
          IF ~rendered \/ Len(Cards(page)) = 0
          THEN /\ spc' = "finally"
               /\ env_fault' = TRUE
               /\ wait_failed_on' = page_count
               /\ UNCHANGED <<item_i, job_cards>>
          ELSE /\ job_cards' = Len(Cards(page))
               /\ item_i' = 1
               /\ spc' = "items"
               /\ UNCHANGED <<env_fault, wait_failed_on>>
    /\ UNCHANGED <<page, job_detail_analyzed, detail_selectors, all_jobs, page_count,
                   browser_open, temp_pages, discoveries>>
    /\ UNCHANGED <<scout_vars, scrape_frame>>

\* the end of the for loop's body: the next card, or the pagination check
NextCard ==
    IF item_i = job_cards
    THEN /\ spc' = "paginate"
         /\ UNCHANGED item_i
    ELSE /\ item_i' = item_i + 1
         /\ UNCHANGED spc

\* lines 445-480: the discovery of the detail selectors on a tab of its own
\* ("skip": the block is not entered)
Discover(d) ==
    CASE d = "skip" ->
            UNCHANGED <<job_detail_analyzed, detail_selectors, temp_pages, discoveries>>
      [] d = "raised" ->
            /\ detail_selectors' = "empty"
            /\ temp_pages' = temp_pages + 1
            /\ discoveries' = discoveries + 1
            /\ UNCHANGED job_detail_analyzed
      [] OTHER ->
            /\ detail_selectors' = d
            /\ job_detail_analyzed' = TRUE
            /\ discoveries' = discoveries + 1
            /\ UNCHANGED temp_pages

\* line 484: the detail_selectors argument of extract_job_details,
\* detail_selectors or {}
SelectorsPassed(ds) == IF ds = "found" THEN "found" ELSE "empty"

\* the record of lines 433-440, with what tells where it was read, how the
\* discovery block went for the item ("skip": not entered) and which selectors
\* its detail fetch was given ("nofetch": line 443 is false)
JobRecord(job_link, detailed, d, used) ==
    [on |-> page.kind, p |-> page.p, idx |-> item_i, job_url |-> job_link,
     company |-> company_name, detailed |-> detailed, disc |-> d, used |-> used]

\* a record put in front of the records collected so far
Emit_InFront(jobs, job_data_) == <<job_data_>> \o jobs

\* line 504: all_jobs.append(job_data)
Emit(jobs, job_data_) == Append(jobs, job_data_)

\* lines 399-513: the body of the for loop for card item_i.  The card is the
\* locator page.locator(job_item).nth(i), resolved on the page as it is now.
ExtractItem ==
    /\ spc = "items"
    /\ LET dom == Cards(page)
           kind == IF item_i <= Len(dom) THEN dom[item_i] ELSE "broken"
           job_link == IF selectors.job_link
                       THEN job_link_of(page.url, Href(kind, item_i))
                       ELSE << >>
       IN  IF kind = "broken"
           THEN \* line 402 raises; lines 511-513
                UNCHANGED <<page, job_detail_analyzed, detail_selectors, all_jobs,
                            temp_pages, discoveries, env_fault>>
           ELSE IF extract_full_details /\ job_link # << >>
                THEN \E d \in IF ~job_detail_analyzed /\ item_i = 1
                              THEN {"found", "None", "raised"} ELSE {"skip"},
                        nav \in {"details", "empty", "failed"} :
                        /\ Discover(d)
                        \* line 484, extract_job_details: page.goto(job_url), line 61
                        /\ page' = IF nav = "failed" THEN page ELSE DetailPage(job_link)
                        /\ env_fault' = (env_fault \/ d = "raised" \/ nav = "failed")
                        /\ all_jobs' = Emit(all_jobs,
                                            JobRecord(job_link, nav = "details", d,
                                                      SelectorsPassed(detail_selectors')))
                ELSE /\ all_jobs' = Emit(all_jobs,
                                         JobRecord(job_link, FALSE, "skip", "nofetch"))
                     /\ UNCHANGED <<page, job_detail_analyzed, detail_selectors,
                                    temp_pages, discoveries, env_fault>>
    /\ NextCard
    /\ UNCHANGED <<job_cards, page_count, browser_open>>
    /\ UNCHANGED <<wait_failed_on, scout_vars, scrape_frame>>

\* lines 516-526: the next-control is looked up on the page as it is now
Paginate ==
    /\ spc = "paginate"
    /\ IF selectors.pagination_next /\ page.kind = "list" /\ page.p < num_pages
       THEN /\ page' = ListPage(page.p + 1)
            /\ page_count' = page_count + 1
            /\ spc' = "wait"
       ELSE /\ spc' = "finally"
            /\ UNCHANGED <<page, page_count>>
    /\ UNCHANGED <<item_i, job_cards, job_detail_analyzed, detail_selectors, all_jobs,
                   browser_open, temp_pages, discoveries, env_fault>>
    /\ UNCHANGED <<wait_failed_on, scout_vars, scrape_frame>>

\* a close at the end of the try block instead of the finally: skipped when
\* an exception was raised
CloseBrowser_SkippedOnException ==
    /\ spc = "finally"
    /\ browser_open' = env_fault
    /\ temp_pages' = IF env_fault THEN temp_pages ELSE 0
    /\ spc' = "done"
    /\ UNCHANGED <<page, item_i, job_cards, job_detail_analyzed, detail_selectors, all_jobs,
                   page_count, discoveries, env_fault>>
    /\ UNCHANGED <<wait_failed_on, scout_vars, scrape_frame>>

\* lines 528-533: the browser is closed, with its tabs, and all_jobs returned
CloseBrowser ==
    /\ spc = "finally"
    /\ browser_open' = FALSE
    /\ temp_pages' = 0
    /\ spc' = "done"
    /\ UNCHANGED <<page, item_i, job_cards, job_detail_analyzed, detail_selectors, all_jobs,
                   page_count, discoveries, env_fault>>
    /\ UNCHANGED <<wait_failed_on, scout_vars, scrape_frame>>


\* scout_mode, lines 288-290: the browser is launched and a page opened
ScoutLaunch ==
    /\ scout_pc = "start"
    /\ \E opened \in BOOLEAN :
          IF opened
          THEN scout_pc' = "try" /\ scout_browser_open' = TRUE
          ELSE \* line 290 is outside the try: the exception leaves scout_mode
               \* through the with block of line 288, which stops Playwright
               scout_pc' = "raised" /\ scout_browser_open' = FALSE
    /\ UNCHANGED <<site_vars, page, spc, item_i, job_cards, job_detail_analyzed,
                   detail_selectors, all_jobs, page_count, browser_open, temp_pages,
                   discoveries, env_fault, wait_failed_on>>
    /\ UNCHANGED scrape_frame

\* scout_mode, lines 291-345: the try block ends with return selectors (line
\* 338), with return None (line 341), or in the except (lines 343-345)
ScoutAnalyze ==
    /\ scout_pc = "try"
    /\ \E ending \in {"selectors", "None", "raised"} : scout_pc' = "finally"
    /\ UNCHANGED <<site_vars, page, spc, item_i, job_cards, job_detail_analyzed,
                   detail_selectors, all_jobs, page_count, browser_open, temp_pages,
                   discoveries, env_fault, wait_failed_on, scout_browser_open>>
    /\ UNCHANGED scrape_frame

\* scout_mode, lines 346-347: finally, browser.close()
ScoutClose ==
    /\ scout_pc = "finally"
    /\ scout_browser_open' = FALSE
    /\ scout_pc' = "done"
    /\ UNCHANGED <<site_vars, page, spc, item_i, job_cards, job_detail_analyzed,
                   detail_selectors, all_jobs, page_count, browser_open, temp_pages,
                   discoveries, env_fault, wait_failed_on>>
    /\ UNCHANGED scrape_frame

NextScrape ==
    \/ ScoutLaunch
    \/ ScoutAnalyze
    \/ ScoutClose
    \/ Launch
    \/ WaitCards
    \/ ExtractItem
    \/ Paginate
    \/ CloseBrowser

SpecScrape == InitScrape /\ [][NextScrape]_vars

----------------------------------------------------------------------------
(* The Model Cooldown Tracker called by one caller: gemini_ai.py:36-59 and   *)
(* 198-226, any sequence of marks, checks and status calls at any times      *)

\* what the one-caller tracker actions leave alone
tracker_frame == <<rate_vars, client_vars, thread_vars, cool_vars, scrape_vars, pure_vars>>

\* the models that come to be marked: those that have a fallback
MarkedModels == {MODEL_HIERARCHY[k] : k \in 1..(Len(MODEL_HIERARCHY) - 1)}

\* the values of cooldown_minutes the caller passes: a minute, and the default
CooldownChoices == {1, COOLDOWN_MINUTES}

\* mark_model_rate_limited(m), for the models that come to be marked
TrackerMark ==
    /\ \E m \in MarkedModels :
          _model_rate_limit_flags' = mark_model_rate_limited(_model_rate_limit_flags, m, now)
    /\ UNCHANGED <<now, tracker_vars>>
    /\ UNCHANGED tracker_frame

\* is_model_rate_limited(m, cooldown_minutes)
TrackerCheck ==
    /\ \E m \in Models, cooldown_minutes \in CooldownChoices :
          LET c == is_model_rate_limited(_model_rate_limit_flags, m, cooldown_minutes, now)
          IN  /\ _model_rate_limit_flags' = c.flags
              /\ last_check' = [model |-> m,
                         cooldown_minutes |-> cooldown_minutes,
                         age |-> IF m \in DOMAIN _model_rate_limit_flags
                                 THEN now - _model_rate_limit_flags[m] ELSE -1,
                         ret |-> c.ret,
                         removed |-> (m \in DOMAIN _model_rate_limit_flags
                                      /\ m \notin DOMAIN c.flags)]
    /\ UNCHANGED <<now, last_status, tracker_ticks>>
    /\ UNCHANGED tracker_frame

\* get_fallback_status()
TrackerStatus ==
    /\ LET st == get_fallback_status(_model_rate_limit_flags, now)
       IN  /\ _model_rate_limit_flags' = st.flags
           /\ last_status' = [called |-> TRUE,
                         before |-> _model_rate_limit_flags,
                         at |-> now,
                         rate_limited_models |-> st.rate_limited_models,
                         available_models |-> st.available_models]
    /\ UNCHANGED <<now, last_check, tracker_ticks>>
    /\ UNCHANGED tracker_frame

\* the clock goes on: by a second, by a minute, or by the rest of the default
\* cooldown
TrackerTick ==
    /\ tracker_ticks < MaxTrackerTicks
    /\ tracker_ticks' = tracker_ticks + 1
    /\ \E d \in {1, 60, COOLDOWN_MINUTES * 60 - 60} : now' = now + d
    /\ UNCHANGED <<_model_rate_limit_flags, last_check, last_status>>
    /\ UNCHANGED tracker_frame

NextTracker ==
    \/ TrackerMark
    \/ TrackerCheck
    \/ TrackerStatus
    \/ TrackerTick

SpecTracker == Init /\ [][NextTracker]_vars

----------------------------------------------------------------------------
(* Properties of the Model Fallback Client, checked under Spec *)

C2_QuotaNeverRetried ==
    \A m \in Models :
        quota_at[m] # -1 =>
            /\ gen_calls[m] = quota_at[m]
            /\ m \in DOMAIN _model_rate_limit_flags

\* C2, witness: the primary model raised a quota error on its first attempt
\* (two attempts left) and the call went on to return the fallback's answer.
C2_Witness ==
    /\ quota_at[MODEL_HIERARCHY[1]] = 1
    /\ result = MODEL_HIERARCHY[2]
    /\ pc = "done"

----------------------------------------------------------------------------
(* Properties of the Rate Limiter, checked under SpecRate *)

\* C6, as claimed: a request that is among the first cap requests of its
\* window is granted without any sleep.
C6_NoSleepUnderCap ==
    window_grants <= GEMINI_REQUESTS_PER_MINUTE =>
        rl_sleep.window = 0 /\ rl_sleep.interval = 0

\* C6, amended: under the configured cap and buffer no request ever sleeps for
\* the window: the only sleep is that of the minimum-interval check, which a
\* request made less than GEMINI_MIN_REQUEST_INTERVAL seconds after the
\* previous grant does issue; and since that interval keeps the requests of one
\* window below the cap, there is no (cap+1)-th request in a window.
C6_OnlyIntervalSleepUnderCap ==
    /\ rl_sleep.window = 0
    /\ rl_sleep.interval >= 0
    /\ rl_sleep.interval <= GEMINI_MIN_REQUEST_INTERVAL
    /\ (rl_sleep.interval > 0 /\ prev_grant # 0 =>
           _last_request_time - prev_grant
               \in GEMINI_MIN_REQUEST_INTERVAL .. GEMINI_MIN_REQUEST_INTERVAL + MaxOversleep)
    /\ _request_count < GEMINI_REQUESTS_PER_MINUTE

\* C6, witness: the second request of a window, made inside the minimum
\* interval, slept.
C6_Witness ==
    /\ window_grants = 2
    /\ _request_count = 2
    /\ rl_sleep.interval > 0
    /\ rl_sleep.window = 0

\* C7: the values written to _last_request_time by two consecutive grants
\* differ by at least GEMINI_MIN_REQUEST_INTERVAL = 60/cap + buffer.
C7_MinimumSpacing ==
    prev_grant # 0 => _last_request_time - prev_grant >= GEMINI_MIN_REQUEST_INTERVAL

\* C7, witness: two consecutive grants exactly the minimum interval apart,
\* the second one after a sleep.
C7_Witness ==
    /\ prev_grant # 0
    /\ _last_request_time - prev_grant = GEMINI_MIN_REQUEST_INTERVAL
    /\ rl_sleep.interval > 0

\* C8: 0 <= _request_count <= cap in every state, and _request_count is the
\* number of requests granted since the window was last (re)started, so at
\* most cap requests are granted between a window start and the next reset.
C8_QuotaWindow ==
    /\ 0 <= _request_count
    /\ _request_count <= GEMINI_REQUESTS_PER_MINUTE
    /\ window_grants = _request_count
    /\ window_grants <= GEMINI_REQUESTS_PER_MINUTE

\* C8, witness: a window was reset after several grants and a request was
\* granted in the new window.
C8_Witness ==
    /\ _minute_start_time > ImportTime
    /\ _request_count = 2
    /\ window_grants = 2

----------------------------------------------------------------------------
(* Properties of the Rate Limiter under concurrent callers, checked under    *)
(* SpecThreads                                                               *)

\* C9: the check, sleep and record steps of one caller exclude every other
\* caller (at most one thread is between lines 68 and 97, and it holds the
\* lock), no update of _request_count is lost (it is the number of grants of
\* the window), and the grants of all callers taken together keep the minimum
\* spacing and the cap.
C9_SafeUnderConcurrentCallers ==
    /\ \A t, u \in Threads : (tpc[t] # "out" /\ tpc[u] # "out") => t = u
    /\ \A t \in Threads : tpc[t] # "out" <=> _request_lock = t
    /\ window_grants = _request_count
    /\ prev_grant # 0 => _last_request_time - prev_grant >= GEMINI_MIN_REQUEST_INTERVAL
    /\ _request_count <= GEMINI_REQUESTS_PER_MINUTE

\* C9, witness: a thread sleeps inside wait_for_rate_limit after the other
\* thread's grant, and two consecutive grants came from different threads.
C9_Witness ==
    /\ prev_grantee = "t1"
    /\ last_grantee = "t2"
    /\ _request_count = 2
    /\ tpc["t1"] = "L92"
    /\ tpc["t2"] = "out"

----------------------------------------------------------------------------
(* Properties of the Model Cooldown Tracker under concurrent callers,        *)
(* checked under SpecCooldown                                                *)

\* C10, as claimed: whatever the interleaving of concurrent
\* mark_model_rate_limited and is_model_rate_limited calls, no call ends in an
\* error and no mark is removed while it is still inside its cooldown.
C10_TrackerSafeUnderConcurrentCallers ==
    /\ \A t \in Threads : k_result[t] # "KeyError"
    /\ ~fresh_removed

----------------------------------------------------------------------------
(* Properties of the extraction walk, checked under SpecScrape *)

\* item j of list page p was extracted from that page and is returned
Recorded(p, j) ==
    \E n \in 1..Len(all_jobs) :
        all_jobs[n].on = "list" /\ all_jobs[n].p = p /\ all_jobs[n].idx = j

\* C3, as claimed: when no navigation, wait or discovery fails, the page is a
\* list page whenever the fields of the next item are about to be extracted
\* and whenever the pagination control is about to be checked, also after the
\* detail fetch of the item before.
C3_ListPageRestoredAfterDetailFetch ==
    (~env_fault /\ spc \in {"items", "paginate"}) => page.kind = "list"

\* C4, as claimed: when scrape_mode has returned and nothing but the extraction
\* of item k of the first list page failed, every other well-formed item of
\* that page was extracted and is returned, with detail fetching enabled as
\* well as disabled.
C4_PartialFailureIsolation ==
    (spc = "done" /\ ~env_fault) =>
        \A k \in 1..Len(list_items) :
            list_items[k] = "broken" =>
                \A j \in 1..Len(list_items) :
                    list_items[j] # "broken" => Recorded(1, j)

\* C5, as claimed: on a list page with two items that have a title and a
\* relative link, with the job_link selector and no further page, scrape_mode
\* returns exactly two records, record n being item n with the supplied
\* company name and the item's href appended to the list page's origin.
C5_TwoItemsTwoRecords ==
    (/\ spc = "done"
     /\ ~env_fault
     /\ list_items = <<"relative", "relative">>
     /\ selectors.job_link
     /\ num_pages = 1)
    => /\ Len(all_jobs) = 2
       /\ \A n \in 1..2 :
             /\ Recorded(1, n)
             /\ all_jobs[n].idx = n
             /\ all_jobs[n].company = company_name
             /\ all_jobs[n].job_url = ListOrigin \o Href("relative", n)

----------------------------------------------------------------------------
(* Selector maps and detail extraction: scout_mode's save                    *)
(* (web_scraper.py:323-338), the detail selectors scrape_mode caches and     *)
(* passes on (lines 466-484), extract_job_details (lines 54-112) and the     *)
(* update of the record (lines 486-504), for one item                        *)

\* str.split(): the words between runs of whitespace
RECURSIVE Words(_)
Words(s) ==
    IF s = << >> THEN << >>
    ELSE IF Head(s) = " " THEN Words(Tail(s))
    ELSE LET n == CHOOSE n \in 1..Len(s) :
                      /\ \A k \in 1..n : s[k] # " "
                      /\ (n = Len(s) \/ s[n + 1] = " ")
         IN  <<SubSeq(s, 1, n)>> \o Words(SubSeq(s, n + 1, Len(s)))

\* ' '.join(words)
RECURSIVE JoinWords(_)
JoinWords(words) ==
    IF words = << >> THEN << >>
    ELSE IF Len(words) = 1 THEN words[1]
    ELSE words[1] \o <<" ">> \o JoinWords(Tail(words))

\* line 274: the values clean_job_details takes for no value
Placeholders == { <<"N","/","A">>, <<"n","/","a">>, <<"N","o","n","e">>,
                  <<"n","u","l","l">>, <<"-">> }

\* lines 270-271: ' '.join(value.split()).strip()
NormalizeWhitespace(s) == JoinWords(Words(s))

\* clean_job_details, lines 262-279
clean_job_details(d) ==
    LET kept == {k \in DOMAIN d :
                    /\ d[k] # PyNone
                    /\ NormalizeWhitespace(d[k].str) # << >>
                    /\ NormalizeWhitespace(d[k].str) \notin Placeholders}
    IN  [k \in kept |-> Str(NormalizeWhitespace(d[k].str))]

\* lines 66-92: the value of one key of detail_selectors
SelectedValue(sel, key) ==
    IF sel[key] # PyNone /\ key \notin unmatched THEN Str(ai_text) ELSE PyNone

\* a merge in which the fallback value replaces what is there
MergeFallbackInto_Overriding(d, fb) == Update(d, fb)

\* lines 98-100: the fallback values fill the keys that are missing or None
MergeFallbackInto(d, fb) ==
    [k \in DOMAIN d \cup DOMAIN fb |->
        IF k \in DOMAIN fb /\ (k \notin DOMAIN d \/ d[k] = PyNone) THEN fb[k] ELSE d[k]]

\* the texts an element matched by an AI selector may show, stripped (line 78)
AiTexts == { <<"x">>, <<"x"," "," ","y">>, <<"N","/","A">> }

\* the texts the elements of a list card may show, stripped (lines 402-403, 428)
CardTexts == { <<"D","e","v">>, << >>, <<"N","/","A">> }

\* the objects the model may answer the detail prompt with: keys of the
\* schema left out, keys outside the schema, null values
DetailResponses ==
    { [k \in (DetailSchema \ drop) \cup extra |-> IF k \in nulls THEN PyNone ELSE Selector] :
          drop \in {{}, {"salary"}},
          extra \in {{}, {"department"}, {"benefits"}, {"title"}},
          nulls \in {{}, {"full_description"}, {"salary", "skills"}} }

\* the objects the model may answer the list prompt with
ListResponses ==
    { [k \in (ListSchema \ drop) \cup extra |-> IF k \in nulls THEN PyNone ELSE Selector] :
          drop \in {{}, {"pagination_next", "job_id"}},
          extra \in {{}, {"salary_range"}},
          nulls \in {{}, {"description"}} }

\* the results of the fallback extractor and of the metadata extractor
FallbackResults ==
    { [k \in keys |-> FallbackText] :
          keys \in {{}, {"full_description"}, {"salary"}, FallbackKeys} }
MetadataResults ==
    { [k \in keys |-> MetadataText] :
          keys \in {{}, {"page_title", "posting_date"}, {"department"}, MetadataKeys} }

InitDetails ==
    /\ InitGemini
    /\ InitSession
    /\ list_items = << >>
    /\ num_pages = 1
    /\ detail_cards = 0
    /\ selectors = [job_link |-> FALSE, pagination_next |-> FALSE]
    /\ extract_full_details = FALSE
    /\ card_text \in CardTexts
    /\ list_response \in ListResponses \cup {PyNone}
    /\ saved = PyNone
    /\ parsed_response \in DetailResponses \cup {PyNone}
    /\ detail_arg = EmptyDict
    /\ ai_text \in AiTexts
    /\ unmatched \in {{}, {"full_description"}, {"requirements", "department"}}
    /\ fallback_extracted \in FallbackResults
    /\ metadata \in MetadataResults
    /\ details = EmptyDict
    /\ ai_details = EmptyDict
    /\ merged = EmptyDict
    /\ queried = {}
    /\ job_data = EmptyDict
    /\ epc = "scout"
    /\ navigated = "unset"
    /\ InitJobIdIdle
    /\ InitStoreIdle

\* what the extraction of one item leaves alone
details_frame == <<now, rate_vars, _model_rate_limit_flags, client_vars, thread_vars,
                   cool_vars, scrape_vars, tracker_vars, jobid_vars, store_vars>>

\* scout_mode, lines 323-338: the selectors are saved as they were returned
Scout ==
    /\ epc = "scout"
    /\ navigated = "unset"
    /\ saved' = IF Truthy(list_response) THEN list_response ELSE PyNone
    /\ epc' = "discover"
    /\ UNCHANGED <<card_text, list_response, parsed_response, detail_arg, ai_text, unmatched,
                   fallback_extracted, metadata, details, ai_details, merged, queried,
                   job_data>>
    /\ UNCHANGED <<navigated, details_frame>>

\* scrape_mode, lines 433-440, 466 and 484: the base record, the detail
\* selectors as they were returned, passed on as detail_selectors or {}
PassDetailSelectors ==
    /\ epc = "discover"
    /\ Truthy(saved)
    /\ job_data' = BaseRecord(saved, card_text)
    /\ detail_arg' = IF Truthy(parsed_response) THEN parsed_response ELSE EmptyDict
    /\ epc' = "goto"
    /\ UNCHANGED <<card_text, list_response, saved, parsed_response, ai_text, unmatched,
                   fallback_extracted, metadata, details, ai_details, merged, queried>>
    /\ UNCHANGED <<navigated, details_frame>>

\* scrape_mode, lines 359-366: without stored selectors no session is started
\* and [] is returned
NoConfiguration ==
    /\ epc = "discover"
    /\ ~Truthy(saved)
    /\ epc' = "no configuration"
    /\ UNCHANGED <<card_text, list_response, saved, parsed_response, detail_arg, ai_text,
                   unmatched, fallback_extracted, metadata, details, ai_details, merged,
                   queried, job_data>>
    /\ UNCHANGED <<navigated, details_frame>>

\* extract_job_details, lines 61-92: the navigation, then the loop over the
\* items of detail_selectors; lines 110-112 when the navigation raises
ApplySelectors ==
    /\ epc = "goto"
    /\ \E ok \in BOOLEAN :
          /\ navigated' = IF ok THEN "yes" ELSE "no"
          /\ IF ok
             THEN /\ details' = [k \in DOMAIN detail_arg |-> SelectedValue(detail_arg, k)]
                  /\ ai_details' = details'
                  /\ queried' = {k \in DOMAIN detail_arg : detail_arg[k] # PyNone}
                  /\ epc' = "fallback"
             ELSE /\ details' = EmptyDict
                  /\ epc' = "returned"
                  /\ UNCHANGED <<ai_details, queried>>
    /\ UNCHANGED <<card_text, list_response, saved, parsed_response, detail_arg, ai_text, unmatched,
                   fallback_extracted, metadata, merged, job_data>>
    /\ UNCHANGED details_frame

\* lines 94-100
MergeFallback ==
    /\ epc = "fallback"
    /\ details' = MergeFallbackInto(details, fallback_extracted)
    /\ merged' = details'
    /\ epc' = "metadata"
    /\ UNCHANGED <<card_text, list_response, saved, parsed_response, detail_arg, ai_text, unmatched,
                   fallback_extracted, metadata, ai_details, queried, job_data>>
    /\ UNCHANGED <<navigated, details_frame>>

\* lines 102-103: details.update(extract_job_metadata(page, job_url))
MergeMetadata ==
    /\ epc = "metadata"
    /\ details' = Update(details, metadata)
    /\ epc' = "clean"
    /\ UNCHANGED <<card_text, list_response, saved, parsed_response, detail_arg, ai_text, unmatched,
                   fallback_extracted, metadata, ai_details, merged, queried, job_data>>
    /\ UNCHANGED <<navigated, details_frame>>

\* lines 105-108: details = clean_job_details(details); return details
CleanDetails ==
    /\ epc = "clean"
    /\ details' = clean_job_details(details)
    /\ epc' = "returned"
    /\ UNCHANGED <<card_text, list_response, saved, parsed_response, detail_arg, ai_text, unmatched,
                   fallback_extracted, metadata, ai_details, merged, queried, job_data>>
    /\ UNCHANGED <<navigated, details_frame>>

\* a record that is dropped when the detail fetch gave nothing
UpdateRecord_DropsOnEmpty ==
    /\ epc = "returned"
    /\ job_data' = IF Truthy(details) THEN Update(job_data, details) ELSE EmptyDict
    /\ epc' = "done"
    /\ UNCHANGED <<card_text, list_response, saved, parsed_response, detail_arg, ai_text, unmatched,
                   fallback_extracted, metadata, details, ai_details, merged, queried>>
    /\ UNCHANGED <<navigated, details_frame>>

\* scrape_mode, lines 486-487 and 504: if job_details: job_data.update(job_details),
\* and the record is emitted
UpdateRecord ==
    /\ epc = "returned"
    /\ job_data' = IF Truthy(details) THEN Update(job_data, details) ELSE job_data
    /\ epc' = "done"
    /\ UNCHANGED <<card_text, list_response, saved, parsed_response, detail_arg, ai_text, unmatched,
                   fallback_extracted, metadata, details, ai_details, merged, queried>>
    /\ UNCHANGED <<navigated, details_frame>>

NextDetails ==
    \/ Scout
    \/ NoConfiguration
    \/ PassDetailSelectors
    \/ ApplySelectors
    \/ MergeFallback
    \/ MergeMetadata
    \/ CleanDetails
    \/ UpdateRecord

SpecDetails == InitDetails /\ [][NextDetails]_vars

----------------------------------------------------------------------------
(* extract_job_id: web_scraper.py:15-51                                      *)

\* the characters \d and \w match
DigitChars == {"0","1","2","3","4","5","6","7","8","9"}
WordChars == DigitChars \cup {"_"} \cup
    {"a","b","c","d","e","f","g","h","i","j","k","l","m","n","o","p","q","r","s","t","u",
     "v","w","x","y","z","A","B","C","D","E","F","G","H","I","J","K","L","M","N","O","P",
     "Q","R","S","T","U","V","W","X","Y","Z"}

\* the length of the longest run of characters of chars in s from position i
RunLength(s, i, chars) ==
    LET runs == {n \in 0..(Len(s) - i + 1) : \A k \in 0..(n - 1) : s[i + k] \in chars}
    IN  CHOOSE n \in runs : \A m \in runs : m <= n

\* the literal lit is in s at position i
MatchAt(s, i, lit) ==
    /\ i + Len(lit) - 1 <= Len(s)
    /\ \A k \in 1..Len(lit) : s[i + k - 1] = lit[k]

\* re.search of a pattern <literal>(\w+), the literal being the first of lits
\* that fits: group 1 of the leftmost match, None without a match
SearchWordAfter(s, lits) ==
    LET fits(i, a) == MatchAt(s, i, lits[a]) /\ RunLength(s, i + Len(lits[a]), WordChars) > 0
        hits == {i \in 1..Len(s) : \E a \in 1..Len(lits) : fits(i, a)}
    IN  IF hits = {} THEN PyNone
        ELSE LET i == CHOOSE i \in hits : \A h \in hits : i <= h
                 a == CHOOSE a \in 1..Len(lits) :
                          fits(i, a) /\ \A b \in 1..(a - 1) : ~fits(i, b)
                 from == i + Len(lits[a])
             IN  Str(SubSeq(s, from, from + RunLength(s, from, WordChars) - 1))

\* re.search(r'/(\d+)/?$', s): group 1, None without a match
SearchTrailingDigits(s) ==
    LET fits(i) == /\ s[i] = "/"
                   /\ LET n == RunLength(s, i + 1, DigitChars)
                      IN  /\ n > 0
                          /\ \/ i + n = Len(s)
                             \/ i + n + 1 = Len(s) /\ s[Len(s)] = "/"
        hits == {i \in 1..Len(s) : fits(i)}
    IN  IF hits = {} THEN PyNone
        ELSE LET i == CHOOSE i \in hits : \A h \in hits : i <= h
             IN  Str(SubSeq(s, i + 1, i + RunLength(s, i + 1, DigitChars)))

\* id_patterns, lines 23-31; an optional s is tried before its absence
id_patterns == <<
    [kind |-> "word", lits |-> <<<<"/","j","o","b","s","/">>, <<"/","j","o","b","/">>>>],
    [kind |-> "word", lits |-> <<<<"/","p","o","s","i","t","i","o","n","s","/">>, <<"/","p","o","s","i","t","i","o","n","/">>>>],
    [kind |-> "word", lits |-> <<<<"/","c","a","r","e","e","r","s","/">>, <<"/","c","a","r","e","e","r","/">>>>],
    [kind |-> "word", lits |-> <<<<"i","d","=">>>>],
    [kind |-> "word", lits |-> <<<<"j","o","b","I","d","=">>>>],
    [kind |-> "word", lits |-> <<<<"p","o","s","i","t","i","o","n","I","d","=">>>>],
    [kind |-> "digits", lits |-> << >>] >>

\* re.search(pattern, href), lines 33-35
PatternMatch(pattern, href) ==
    IF pattern.kind = "word" THEN SearchWordAfter(href, pattern.lits)
    ELSE SearchTrailingDigits(href)

\* lines 32-35: group 1 of the first pattern, from the k-th on, that matches
RECURSIVE FirstPatternMatch(_, _)
FirstPatternMatch(href, k) ==
    IF k > Len(id_patterns) THEN PyNone
    ELSE IF PatternMatch(id_patterns[k], href) # PyNone
         THEN PatternMatch(id_patterns[k], href)
         ELSE FirstPatternMatch(href, k + 1)

\* lines 20-35: the id the link target gives, None when it gives none
UrlId(href) ==
    IF href = PyNone \/ href.str = << >> THEN PyNone ELSE FirstPatternMatch(href.str, 1)

\* bool(value) of a str or None
NonEmpty(value) == value # PyNone /\ value.str # << >>

\* an attribute order that looks at data-job-id first
AttributeId_JobIdFirst(attrs, k) ==
    IF NonEmpty(attrs["data-job-id"]) THEN attrs["data-job-id"]
    ELSE IF NonEmpty(attrs["data-id"]) THEN attrs["data-id"]
    ELSE IF NonEmpty(attrs["data-position-id"]) THEN attrs["data-position-id"]
    ELSE IF NonEmpty(attrs["id"]) THEN attrs["id"]
    ELSE PyNone

\* lines 38-41: the first non-empty attribute of IdAttributes, from the k-th on
RECURSIVE AttributeId(_, _)
AttributeId(attrs, k) ==
    IF k > Len(IdAttributes) THEN PyNone
    ELSE IF NonEmpty(attrs[IdAttributes[k]]) THEN attrs[IdAttributes[k]]
    ELSE AttributeId(attrs, k + 1)

\* str.strip()
RECURSIVE Strip(_)
Strip(s) ==
    IF s = << >> THEN s
    ELSE IF Head(s) = " " THEN Strip(Tail(s))
    ELSE IF s[Len(s)] = " " THEN Strip(SubSeq(s, 1, Len(s) - 1))
    ELSE s

\* lines 44-46: the stripped text if it is all digits
TextId(text) ==
    IF Strip(text) # << >> /\ \A k \in 1..Len(Strip(text)) : Strip(text)[k] \in DigitChars
    THEN Str(Strip(text))
    ELSE PyNone

\* the link targets of the elements followed: none, "/jobs/j7", "/job/8",
\* "/careers/c9?id=5", "/view?jobId=12", "/p/33/", "/about"
Hrefs == { PyNone, Str(<<"/","j","o","b","s","/","j","7">>), Str(<<"/","j","o","b","/","8">>), Str(<<"/","c","a","r","e","e","r","s","/","c","9","?","i","d","=","5">>), Str(<<"/","v","i","e","w","?","j","o","b","I","d","=","1","2">>), Str(<<"/","p","/","3","3","/">>), Str(<<"/","a","b","o","u","t">>) }

\* the attributes of the elements followed: each absent or set; data-id also empty
AttributeMaps ==
    { [a \in {"data-id", "data-job-id", "data-position-id", "id"} |->
          IF a \in set THEN Str(<<"v", a>>)
          ELSE IF a = "data-id" /\ empty THEN Str(<< >>)
          ELSE PyNone] :
      set \in SUBSET {"data-id", "data-job-id", "data-position-id", "id"},
      empty \in BOOLEAN }

\* the inner texts of the elements followed: "", " 42 ", "Apply"
Texts == { << >>, <<" ","4","2"," ">>, <<"A","p","p","l","y">> }

InitJobId ==
    /\ InitGemini
    /\ InitSession
    /\ list_items = << >>
    /\ num_pages = 1
    /\ detail_cards = 0
    /\ selectors = [job_link |-> FALSE, pagination_next |-> FALSE]
    /\ extract_full_details = FALSE
    /\ card_text = << >>
    /\ list_response = PyNone
    /\ saved = PyNone
    /\ parsed_response = PyNone
    /\ detail_arg = EmptyDict
    /\ ai_text = << >>
    /\ unmatched = {}
    /\ fallback_extracted = EmptyDict
    /\ metadata = EmptyDict
    /\ details = EmptyDict
    /\ ai_details = EmptyDict
    /\ merged = EmptyDict
    /\ queried = {}
    /\ job_data = EmptyDict
    /\ epc = "idle"
    /\ navigated = "unset"
    /\ element \in [href : Hrefs, attrs : AttributeMaps, text : Texts]
    /\ raises_at \in {"none", "href", "attrs", "text"}
    /\ jpc = "href"
    /\ extracted_id = PyNone
    /\ InitStoreIdle

\* what extract_job_id leaves alone
jobid_frame == <<now, rate_vars, _model_rate_limit_flags, client_vars, thread_vars,
                 cool_vars, scrape_vars, tracker_vars, extract_vars, store_vars>>

\* lines 20-35: the link target
ReadHref ==
    /\ jpc = "href"
    /\ IF raises_at = "href"
       THEN jpc' = "done" /\ extracted_id' = PyNone
       ELSE IF UrlId(element.href) # PyNone
       THEN jpc' = "done" /\ extracted_id' = UrlId(element.href)
       ELSE jpc' = "attrs" /\ UNCHANGED extracted_id
    /\ UNCHANGED <<element, raises_at>>
    /\ UNCHANGED jobid_frame

\* lines 38-41: the data attributes
ReadAttributes ==
    /\ jpc = "attrs"
    /\ IF raises_at = "attrs"
       THEN jpc' = "done" /\ extracted_id' = PyNone
       ELSE IF AttributeId(element.attrs, 1) # PyNone
       THEN jpc' = "done" /\ extracted_id' = AttributeId(element.attrs, 1)
       ELSE jpc' = "text" /\ UNCHANGED extracted_id
    /\ UNCHANGED <<element, raises_at>>
    /\ UNCHANGED jobid_frame

\* lines 44-51: the text, and None when nothing gave an id
ReadText ==
    /\ jpc = "text"
    /\ jpc' = "done"
    /\ extracted_id' = IF raises_at = "text" THEN PyNone ELSE TextId(element.text)
    /\ UNCHANGED <<element, raises_at>>
    /\ UNCHANGED jobid_frame

NextJobId ==
    \/ ReadHref
    \/ ReadAttributes
    \/ ReadText

SpecJobId == InitJobId /\ [][NextJobId]_vars

----------------------------------------------------------------------------
(* The configuration store (utils.py:19-79) and the batch operations that   *)
(* scout and scrape the companies of companies.json (batch_operations.py).  *)
(* A company name is the sequence of its characters.                        *)

\* str.isalnum() on one character
AlnumChars == DigitChars \cup {UpperCase[i] : i \in 1..26} \cup {LowerCase[i] : i \in 1..26}

\* the characters line 21 keeps
IsSafeChar(c) == c \in AlnumChars \/ c \in {" ", "-", "_"}

\* str.rstrip()
RECURSIVE RStrip(_)
RStrip(s) ==
    IF s = << >> THEN s
    ELSE IF s[Len(s)] = " " THEN RStrip(SubSeq(s, 1, Len(s) - 1))
    ELSE s

\* str.replace(' ', '_')
ReplaceSpaces(s) == [i \in 1..Len(s) |-> IF s[i] = " " THEN "_" ELSE s[i]]

\* utils.py:19-22
get_safe_company_name(cname) ==
    Lower(ReplaceSpaces(RStrip(SelectSeq(cname, IsSafeChar))))

\* companies.json: "Ab Co", "ab co.", "Zed ?" and "Q-9", the last without a career_url
COMPANIES ==
    << [name |-> <<"A","b"," ","C","o">>, career_url |-> "https://ab.co/jobs"],
       [name |-> <<"a","b"," ","c","o",".">>, career_url |-> "https://abco.com/careers"],
       [name |-> <<"Z","e","d"," ","?">>, career_url |-> "https://zed.io/jobs"],
       [name |-> <<"Q","-","9">>, career_url |-> ""] >>
CompanyNames == {COMPANIES[i].name : i \in 1..Len(COMPANIES)}

\* get_safe_company_name of the names of companies.json
SafeNameOf == [c \in CompanyNames |-> get_safe_company_name(c)]

\* what get_selectors_from_gemini may return to scout_mode (line 323)
MapA == [k \in ListSchema |-> Selector]
MapB == [k \in ListSchema \ {"pagination_next", "job_id"} |-> Selector]
Discoveries == {PyNone, EmptyDict, MapA, MapB}

\* utils.py:56-69; last_updated, which nothing reads, is left out
save_configuration(confs, cname, sel) ==
    [k \in DOMAIN confs \cup {SafeNameOf[cname]} |->
        IF k = SafeNameOf[cname]
        THEN [company_name |-> cname, selectors |-> sel]
        ELSE confs[k]]

\* utils.py:72-79
get_company_configuration(confs, cname) ==
    IF SafeNameOf[cname] \in DOMAIN confs
    THEN confs[SafeNameOf[cname]].selectors
    ELSE PyNone

\* the discovery of a scout_mode call whose session raised before line 323
DiscoveryNotReached == [unreached |-> TRUE]

\* scout_mode for a named company, web_scraper.py:323-345: what it returns and the
\* store it leaves
scout_mode_SavesAlways(confs, cname, discovery, raised) ==
    IF raised
    THEN [returned |-> PyNone, store |-> confs]
    ELSE [returned |-> IF Truthy(discovery) THEN discovery ELSE PyNone,
          store |-> save_configuration(confs, cname, discovery)]
scout_mode(confs, cname, discovery, raised) ==
    IF raised
    THEN [returned |-> PyNone, store |-> confs]
    ELSE IF Truthy(discovery)
    THEN [returned |-> discovery, store |-> save_configuration(confs, cname, discovery)]
    ELSE [returned |-> PyNone, store |-> confs]

\* what the batch operations leave alone
store_frame == <<now, rate_vars, _model_rate_limit_flags, client_vars, thread_vars,
                 cool_vars, scrape_vars, tracker_vars, extract_vars, jobid_vars>>

\* the for loops over companies: the next company, or the operation that follows
Advance(following) ==
    IF company_idx < Len(COMPANIES)
    THEN /\ company_idx' = company_idx + 1
         /\ batch_pc' = batch_pc
    ELSE /\ company_idx' = (IF following = "idle" THEN 0 ELSE 1)
         /\ batch_pc' = following

\* a scout_mode call of a batch operation and what it does to the store
ScoutCompany(cname) ==
    \E discovery \in Discoveries, raised \in BOOLEAN :
        LET out == scout_mode(configurations, cname, discovery, raised)
        IN  /\ configurations' = out.store
            /\ last_scout' = [n |-> 1, company |-> cname, op |-> batch_pc,
                              discovery |-> IF raised THEN DiscoveryNotReached ELSE discovery,
                              returned |-> out.returned,
                              before |-> configurations]

\* scrapper.py:149, 153 and the intelligent workflow start a batch operation
StartBatchScout ==
    /\ batch_pc = "idle"
    /\ batch_pc' = "batch_scout"
    /\ company_idx' = 1
    /\ UNCHANGED <<configurations, last_scout, last_scrape, store_frame>>

StartBatchScrape ==
    /\ batch_pc = "idle"
    /\ batch_pc' = "batch_scrape"
    /\ company_idx' = 1
    /\ UNCHANGED <<configurations, last_scout, last_scrape, store_frame>>

\* intelligent_scrape_all, batch_operations.py:139-157: Phase 1 counts the companies
\* without a configuration, and Phase 2 runs when there is one
companies_needing_scout ==
    Cardinality({i \in 1..Len(COMPANIES) :
                    ~Truthy(get_company_configuration(configurations, COMPANIES[i].name))})

StartIntelligent ==
    /\ batch_pc = "idle"
    /\ batch_pc' = (IF companies_needing_scout > 0 THEN "phase2" ELSE "phase3")
    /\ company_idx' = 1
    /\ UNCHANGED <<configurations, last_scout, last_scrape, store_frame>>

\* batch_scout_mode, batch_operations.py:25-43: one company of the loop
BatchScoutStep ==
    /\ batch_pc = "batch_scout"
    /\ IF COMPANIES[company_idx].career_url = ""
       THEN UNCHANGED <<configurations, last_scout>>
       ELSE ScoutCompany(COMPANIES[company_idx].name)
    /\ Advance("idle")
    /\ UNCHANGED <<last_scrape, store_frame>>

\* intelligent_scrape_all Phase 2, batch_operations.py:160-184: one company of the loop
Phase2Step ==
    /\ batch_pc = "phase2"
    /\ IF Truthy(get_company_configuration(configurations, COMPANIES[company_idx].name))
       THEN UNCHANGED <<configurations, last_scout>>
       ELSE IF COMPANIES[company_idx].career_url = ""
       THEN UNCHANGED <<configurations, last_scout>>
       ELSE ScoutCompany(COMPANIES[company_idx].name)
    /\ Advance("phase3")
    /\ UNCHANGED <<last_scrape, store_frame>>

\* scrape_mode's prologue, web_scraper.py:359-366, and its session: whether the
\* session is launched and what the call returns
scrape_mode(confs, cname, given, found_jobs) ==
    LET sel == IF Truthy(given) THEN given
               ELSE get_company_configuration(confs, cname)
    IN  IF Truthy(sel)
        THEN [launched |-> TRUE, returned |-> IF found_jobs THEN "jobs" ELSE "[]"]
        ELSE [launched |-> FALSE, returned |-> "[]"]

\* batch_scrape_mode, batch_operations.py:68-90, and Phase 3 of intelligent_scrape_all,
\* batch_operations.py:193-215: one company of the loop
ScrapeStep ==
    /\ batch_pc \in {"batch_scrape", "phase3"}
    /\ LET company == COMPANIES[company_idx]
           sel == get_company_configuration(configurations, company.name)
       IN  IF company.career_url = ""
           THEN UNCHANGED last_scrape
           ELSE IF ~Truthy(sel)
           THEN last_scrape' = [n |-> 1, company |-> company.name, launched |-> FALSE,
                                returned |-> "skipped", scout |-> last_scout]
           ELSE \E found_jobs \in BOOLEAN :
                   LET out == scrape_mode(configurations, company.name, sel, found_jobs)
                   IN  last_scrape' = [n |-> 1, company |-> company.name,
                                       launched |-> out.launched,
                                       returned |-> out.returned, scout |-> last_scout]
    /\ Advance("idle")
    /\ UNCHANGED <<configurations, last_scout, store_frame>>

\* a caller of scrape_mode(url, company_name) that passes no selectors
ScrapeByName ==
    /\ batch_pc = "idle"
    /\ \E i \in 1..Len(COMPANIES), found_jobs \in BOOLEAN :
          LET out == scrape_mode(configurations, COMPANIES[i].name, PyNone, found_jobs)
          IN  last_scrape' = [n |-> 1, company |-> COMPANIES[i].name,
                              launched |-> out.launched,
                              returned |-> out.returned, scout |-> last_scout]
    /\ UNCHANGED <<configurations, batch_pc, company_idx, last_scout, store_frame>>

NextStore ==
    \/ StartBatchScout
    \/ StartBatchScrape
    \/ StartIntelligent
    \/ BatchScoutStep
    \/ Phase2Step
    \/ ScrapeStep
    \/ ScrapeByName

SpecStore == Init /\ [][NextStore]_vars

----------------------------------------------------------------------------
(* Properties of the Model Cooldown Tracker called by one caller, checked    *)
(* under SpecTracker                                                         *)

\* the elements of a list
Elements(seq) == {seq[n] : n \in 1..Len(seq)}

\* what C11 says of the mark's removal and of get_fallback_status: the mark is
\* removed exactly when the check finds it older than the cooldown, a model
\* without a mark is listed in available_models, and a model whose mark is
\* younger than the default cooldown is not
C11_RemovalAndStatus ==
    /\ last_check.model # "none" =>
          (last_check.removed <=>
              (last_check.age # -1 /\ last_check.age > last_check.cooldown_minutes * 60))
    /\ last_check.removed => ~last_check.ret
    /\ last_status.called =>
          \A m \in Models :
              /\ m \notin DOMAIN last_status.before
                 => m \in Elements(last_status.available_models)
              /\ (m \in DOMAIN last_status.before
                    /\ last_status.at - last_status.before[m] < COOLDOWN_MINUTES * 60)
                 => m \notin Elements(last_status.available_models)

\* C11, as claimed: is_model_rate_limited(model, cooldown) returns true iff a
\* mark exists for the model and now - mark < cooldown duration, so false when
\* now - mark equals the duration; it removes the mark exactly when it finds it
\* expired; a model never marked is in available_models, a marked one is not.
C11_CooledIffMarkYoungerThanCooldown ==
    /\ last_check.model # "none" =>
          (last_check.ret <=>
              (last_check.age # -1 /\ last_check.age < last_check.cooldown_minutes * 60))
    /\ C11_RemovalAndStatus

\* C11, amended: is_model_rate_limited(model, cooldown) returns true iff a mark
\* exists for the model and now - mark <= cooldown duration, so true when
\* now - mark equals the duration and false only when it is greater; the rest
\* as claimed.
C11_CooledIffMarkNotOlderThanCooldown ==
    /\ last_check.model # "none" =>
          (last_check.ret <=>
              (last_check.age # -1 /\ last_check.age <= last_check.cooldown_minutes * 60))
    /\ C11_RemovalAndStatus

\* C11, witness: a check of a mark exactly as old as the default cooldown
\* answered true and left the mark, after a status call that listed a model
\* never marked and left out the marked one.
C11_Witness ==
    /\ last_check.model # "none"
    /\ last_check.cooldown_minutes = COOLDOWN_MINUTES
    /\ last_check.age = COOLDOWN_MINUTES * 60
    /\ last_check.ret
    /\ last_check.model \in DOMAIN _model_rate_limit_flags
    /\ last_status.called
    /\ last_check.model \in DOMAIN last_status.before
    /\ last_check.model \notin Elements(last_status.available_models)
    /\ Len(last_status.available_models) = 2

----------------------------------------------------------------------------
(* Properties of the Model Fallback Client over several calls, checked under *)
(* Spec                                                                      *)

\* C12: a model marked at t0 receives no generation call, from the call that
\* marked it or from a later one, while now - t0 is within the cooldown
\* duration; and a call made after the duration has elapsed does not skip it
\* as cooled.
C12_CooldownExcludesThenReadmits ==
    /\ ~gen_in_cooldown
    /\ ~skipped_eligible
    /\ \A m \in Models :
          (m \in DOMAIN _model_rate_limit_flags /\ last_mark[m] # -1)
             => _model_rate_limit_flags[m] = last_mark[m]

\* C12, witness: the primary model was marked by the first call, the second
\* call was made after the cooldown had elapsed and sent it a generation call.
C12_Witness ==
    /\ calls = 2
    /\ MODEL_HIERARCHY[1] \in eligible
    /\ gen_calls[MODEL_HIERARCHY[1]] >= 1
    /\ now - last_mark[MODEL_HIERARCHY[1]] > COOLDOWN_MINUTES * 60

\* the call is over with model m: m was skipped, or all its attempts failed
AttemptsExhausted(m) == m \in skipped \/ gen_calls[m] = MAX_RETRY_ATTEMPTS

\* the call is over with model m: as above, or m raised a quota error
Exhausted(m) == AttemptsExhausted(m) \/ quota_at[m] # -1

\* what C13 says of a call that returns an object: it is the answer to the
\* call's last generation call, which went to the first model of the hierarchy
\* with a valid answer, the call being over with the models before it, and no
\* later model was tried
ReturnsFirstParsed ==
    (calls > 0 /\ pc \in {"done", "idle"} /\ result # "None") =>
        \E k \in 1..Len(MODEL_HIERARCHY) :
            /\ result = MODEL_HIERARCHY[k]
            /\ last_gen = [model |-> result, outcome |-> "ok"]
            /\ \A j \in 1..(k - 1) : Exhausted(MODEL_HIERARCHY[j])
            /\ \A j \in (k + 1)..Len(MODEL_HIERARCHY) :
                  /\ gen_calls[MODEL_HIERARCHY[j]] = 0
                  /\ MODEL_HIERARCHY[j] \notin skipped

\* C13, as claimed: the call returns the first successfully parsed object,
\* from the earliest model that produces one, with no generation call after
\* it, and returns None only when every model was skipped as cooled (or
\* not initializable) or failed all its attempts.
C13_NoneOnlyWhenAllSkippedOrFailedAll ==
    /\ ReturnsFirstParsed
    /\ (calls > 0 /\ pc \in {"done", "idle"} /\ result = "None") =>
           \A m \in Models : AttemptsExhausted(m)

\* C13, amended: as claimed, but None is returned only when every model was
\* skipped as cooled (or not initializable), failed all its attempts, or
\* raised a quota-classified error, which ends its attempts at once.
C13_NoneOnlyWhenAllExhausted ==
    /\ ReturnsFirstParsed
    /\ (calls > 0 /\ pc \in {"done", "idle"} /\ result = "None") =>
           \A m \in Models : Exhausted(m)
    /\ pc \notin {"done", "idle"} => result = "unset"

\* C13, witness: the primary model failed all its attempts, the fallback was
\* skipped, and the emergency model's answer is returned.
C13_Witness ==
    /\ pc = "done"
    /\ result = MODEL_HIERARCHY[3]
    /\ gen_calls[MODEL_HIERARCHY[1]] = MAX_RETRY_ATTEMPTS
    /\ quota_at[MODEL_HIERARCHY[1]] = -1
    /\ MODEL_HIERARCHY[2] \in skipped

\* the outcome of the latest attempt on the model being tried
LastOutcome == attempts_log[Len(attempts_log)]

\* the model the attempts of attempts_log were made on
TriedModel == last_gen.model

\* the failed attempt is retried on the same model: the loop of line 137 is
\* still on TriedModel, before or after the delay of lines 172-173, 187-189
RetriedOnSameModel ==
    /\ pc \in {"retry_sleep", "wait", "generate"}
    /\ model_idx <= Len(MODEL_HIERARCHY)
    /\ CurrentModel = TriedModel
    /\ attempt = IF pc = "retry_sleep" THEN Len(attempts_log) - 1 ELSE Len(attempts_log)

\* the loop of line 119 has left TriedModel for the models after it
AdvancedPastTriedModel ==
    /\ pc \in {"select", "done"}
    /\ \A k \in 1..Len(MODEL_HIERARCHY) : MODEL_HIERARCHY[k] = TriedModel => model_idx > k

\* C14: a malformed answer is retried on the same model while attempts
\* remain and the next model is tried only when they are exhausted; when the
\* primary model answers malformed JSON twice and valid JSON on its third
\* attempt, the call returns the primary model's result and no other model
\* receives a generation call.
C14_MalformedRetriesSameModel ==
    /\ (attempts_log # << >> /\ LastOutcome = "malformed") =>
           IF Len(attempts_log) < MAX_RETRY_ATTEMPTS
           THEN RetriedOnSameModel
           ELSE AdvancedPastTriedModel
    /\ (attempts_log = <<"malformed", "malformed", "ok">> /\ TriedModel = MODEL_HIERARCHY[1]) =>
           /\ pc = "done"
           /\ result = MODEL_HIERARCHY[1]
           /\ \A m \in Models \ {MODEL_HIERARCHY[1]} : gen_calls[m] = 0

\* C14, witness: the primary model answered malformed JSON twice and then
\* valid JSON, and the call returns its result.
C14_Witness ==
    /\ pc = "done"
    /\ attempts_log = <<"malformed", "malformed", "ok">>
    /\ result = MODEL_HIERARCHY[1]

\* the retry in progress follows a sleep of the fixed retry delay, taken
\* after the failed attempt (lines 172-173, 187-189)
RetriedAfterDelay ==
    pc \in {"wait", "generate"} =>
        /\ Len(sleeps_log) = Len(attempts_log)
        /\ sleeps_log[Len(sleeps_log)] =
               [after |-> Len(attempts_log), seconds |-> RETRY_DELAY_SECONDS]

\* C15: a call failure that is not classified as a quota error, an empty
\* response included, is retried on the same model after the fixed retry
\* delay while attempts remain, and the next model is tried once the
\* model's attempts are exhausted.
C15_TransientFailureRetriesAfterDelay ==
    (attempts_log # << >> /\ LastOutcome = "raised") =>
        /\ last_gen.outcome \in {"raised", "empty"}
        /\ IF Len(attempts_log) < MAX_RETRY_ATTEMPTS
           THEN RetriedOnSameModel /\ RetriedAfterDelay
           ELSE AdvancedPastTriedModel

\* C15, witness: the fallback model answered with an empty response and its
\* second attempt is under way after the retry delay.
C15_Witness ==
    /\ pc = "generate"
    /\ CurrentModel = MODEL_HIERARCHY[2]
    /\ last_gen = [model |-> MODEL_HIERARCHY[2], outcome |-> "empty"]
    /\ attempts_log = <<"raised">>
    /\ sleeps_log = <<[after |-> 1, seconds |-> RETRY_DELAY_SECONDS]>>

\* the retry delays slept on the model being tried: one after each attempt
\* that was followed by another attempt, each of RETRY_DELAY_SECONDS
SleepsBetweenAttempts ==
    /\ Len(sleeps_log) = IF pc \in {"wait", "generate"} THEN Len(attempts_log)
                         ELSE IF attempts_log = << >> THEN 0
                         ELSE Len(attempts_log) - 1
    /\ \A k \in 1..Len(sleeps_log) :
          sleeps_log[k] = [after |-> k, seconds |-> RETRY_DELAY_SECONDS]

\* C16: within one call each model receives at most MAX_RETRY_ATTEMPTS
\* generation calls, and the retry delay is slept between two consecutive
\* attempts on the same model, once, and never after a model's last attempt.
C16_RetryBudget ==
    /\ \A m \in Models : gen_calls[m] <= MAX_RETRY_ATTEMPTS
    /\ attempts_log # << >> => gen_calls[TriedModel] = Len(attempts_log)
    /\ SleepsBetweenAttempts

\* C16, witness: a model has failed all its attempts, with a retry delay
\* after each but the last, and the next model is about to be tried.
C16_Witness ==
    /\ pc = "select"
    /\ Len(attempts_log) = MAX_RETRY_ATTEMPTS
    /\ gen_calls[TriedModel] = MAX_RETRY_ATTEMPTS
    /\ Len(sleeps_log) = MAX_RETRY_ATTEMPTS - 1

\* the primary model's first attempt raised a quota-classified error and the
\* fallback model's answer was valid JSON
PrimaryQuotaThenFallbackOk ==
    /\ pc = "done"
    /\ quota_at[MODEL_HIERARCHY[1]] = 1
    /\ last_gen = [model |-> MODEL_HIERARCHY[2], outcome |-> "ok"]

\* C17: when the primary model's first attempt raises a quota-classified
\* error and the fallback model answers with valid JSON, the call returns
\* the fallback model's result, and less than 60 seconds pass between the
\* quota error and the generation call to the fallback model.
C17_FallbackWithinSixtySeconds ==
    PrimaryQuotaThenFallbackOk =>
        /\ result = MODEL_HIERARCHY[2]
        /\ last_switch.from = 1
        /\ last_switch.to = 2
        /\ last_switch.elapsed < 60

\* C17, witness: the primary model's first attempt raised a quota error, the
\* rate limiter slept before the fallback model's call, and the fallback
\* model's result is returned.
C17_Witness ==
    /\ PrimaryQuotaThenFallbackOk
    /\ result = MODEL_HIERARCHY[2]
    /\ gen_calls[MODEL_HIERARCHY[1]] = 1
    /\ last_switch.elapsed > 0

----------------------------------------------------------------------------
(* Properties of the detail-schema discovery of scrape_mode, checked under   *)
(* SpecScrape                                                                *)

\* record n was given a detail fetch (lines 443, 484)
Fetched(n) == all_jobs[n].used # "nofetch"

\* the discovery block was entered for the item of record n (line 445)
DiscoveredOn(n) == all_jobs[n].disc # "skip"

\* C18, as claimed: in one scrape_mode call the discovery block is entered at
\* most once, also when the first discovery raises, and every later item's
\* detail fetch is given the selectors that discovery left.
C18_SingleDiscoveryPerSession ==
    /\ discoveries <= 1
    /\ \A n \in 1..Len(all_jobs) : \A m \in (n + 1)..Len(all_jobs) :
          (DiscoveredOn(n) /\ Fetched(m)) =>
              /\ ~DiscoveredOn(m)
              /\ all_jobs[m].used = all_jobs[n].used

\* C19, as claimed: the discovery block is entered for the first item of the
\* session that has a detail link to fetch, whatever its position on the
\* page, before that item's detail fetch.
C19_DiscoveryOnFirstLinkedItem ==
    \A n \in 1..Len(all_jobs) :
        (Fetched(n) /\ \A k \in 1..(n - 1) : ~Fetched(k)) => DiscoveredOn(n)

\* C20, as claimed: once a discovery has failed (the client returned None, or
\* the block raised), the detail fetch of that item and of every later item
\* of the session is given no AI selector, and the session goes on to
\* scrape_mode's return.
C20_FailedDiscoveryLeavesSchemaEmpty ==
    /\ \A n \in 1..Len(all_jobs) : \A m \in n..Len(all_jobs) :
          (all_jobs[n].disc \in {"None", "raised"} /\ Fetched(m)) =>
              all_jobs[m].used = "empty"
    /\ (\E n \in 1..Len(all_jobs) : all_jobs[n].disc \in {"None", "raised"}) =>
          spc \in {"items", "paginate", "wait", "finally", "done"}

----------------------------------------------------------------------------
(* Properties of the selector maps and of extract_job_details, checked under *)
(* SpecDetails                                                               *)

\* the key has a value that came from an AI selector
AiSourced(k) == k \in DOMAIN ai_details /\ ai_details[k] # PyNone

\* the merge of lines 98-100 has run and details is as it left it
FallbackMerged == epc \in {"metadata", "clean"}

\* C21: after the merge of the fallback values, every key of the AI values
\* or of the fallback values has the AI value when that value is present and
\* not null, and the fallback value (null if there is none) otherwise; the
\* fallback never replaces a present AI value.
C21_MergePrecedence ==
    FallbackMerged =>
        /\ DOMAIN merged = DOMAIN ai_details \cup DOMAIN fallback_extracted
        /\ \A k \in DOMAIN merged :
              merged[k] = IF AiSourced(k) THEN ai_details[k]
                          ELSE Get(fallback_extracted, k)

\* C21, witness: the AI values have requirements and a null full_description
\* and no salary, the fallback values have all three keys, and the merge keeps
\* the AI requirements and takes the fallback's full_description and salary.
C21_Witness ==
    /\ epc = "metadata"
    /\ AiSourced("requirements")
    /\ "full_description" \in DOMAIN ai_details /\ ai_details["full_description"] = PyNone
    /\ "salary" \notin DOMAIN ai_details
    /\ DOMAIN fallback_extracted = FallbackKeys
    /\ merged["requirements"] = Str(ai_text)
    /\ merged["full_description"] = FallbackText
    /\ merged["salary"] = FallbackText

\* the metadata of lines 102-103 has been merged and details is as that left it
MetadataMerged == epc = "clean"

\* C22, as claimed: the metadata merged in extract_job_details never replaces
\* a value that came from an AI selector: every key with a non-null AI value
\* still has that value after the metadata merge.
C22_MetadataKeepsAiValues ==
    MetadataMerged => \A k \in DOMAIN ai_details : AiSourced(k) => details[k] = ai_details[k]

\* C25, as claimed: a key of the AI response outside the selector schema is
\* ignored: its selector is never given to the page, and the emitted record
\* has no field of that name.
C25_UnknownKeysIgnored ==
    /\ queried \subseteq DetailSchema
    /\ epc = "done" =>
          \A k \in DOMAIN job_data :
              (k \in DOMAIN detail_arg /\ k \notin DetailSchema) => k \in MetadataKeys

\* the detail selectors were cached and passed on (lines 466, 484)
DetailSelectorsCached == epc \notin {"idle", "scout", "discover"}

\* C24, as claimed: the list selectors scout_mode saves and the detail
\* selectors scrape_mode caches have every key of their schema, a key the
\* model's answer left out being there with the value null.
C24_SelectorMapsFieldComplete ==
    /\ saved # PyNone => ListSchema \subseteq DOMAIN saved
    /\ (DetailSelectorsCached /\ Truthy(parsed_response)) =>
          DetailSchema \subseteq DOMAIN detail_arg

----------------------------------------------------------------------------
(* Properties of extract_job_id, checked under SpecJobId                     *)

\* the element has the attribute, with a value that is not empty
HasAttribute(a) == NonEmpty(element.attrs[a])

\* no attribute of the chain has a value
NoAttribute ==
    ~HasAttribute("data-id") /\ ~HasAttribute("data-job-id")
        /\ ~HasAttribute("data-position-id") /\ ~HasAttribute("id")

\* an access to the element that extract_job_id makes raises
AccessRaises ==
    \/ raises_at = "href"
    \/ raises_at = "attrs" /\ UrlId(element.href) = PyNone
    \/ raises_at = "text" /\ UrlId(element.href) = PyNone /\ NoAttribute

\* C23: extract_job_id returns the id of the first stage that gives one: the
\* URL pattern match on the link target, then the attributes data-id,
\* data-job-id, data-position-id, id in that order, then the element's text
\* if it is all digits; an element with a matching URL and a data-job-id
\* gets the URL's id; without a match at any stage, or on any error, the
\* result is None.
C23_JobIdPriorityChain ==
    jpc = "done" =>
        extracted_id =
            IF AccessRaises THEN PyNone
            ELSE IF UrlId(element.href) # PyNone THEN UrlId(element.href)
            ELSE IF HasAttribute("data-id") THEN element.attrs["data-id"]
            ELSE IF HasAttribute("data-job-id") THEN element.attrs["data-job-id"]
            ELSE IF HasAttribute("data-position-id") THEN element.attrs["data-position-id"]
            ELSE IF HasAttribute("id") THEN element.attrs["id"]
            ELSE IF Strip(element.text) # << >>
                    /\ \A k \in 1..Len(Strip(element.text)) :
                          Strip(element.text)[k] \in DigitChars
            THEN Str(Strip(element.text))
            ELSE PyNone

\* C23, witness: an element whose link target is "/jobs/j7" and which has a
\* data-job-id gets the id "j7" of the URL.
C23_Witness ==
    /\ jpc = "done"
    /\ element.href = Str(<<"/","j","o","b","s","/","j","7">>)
    /\ HasAttribute("data-job-id")
    /\ extracted_id = Str(<<"j","7">>)

----------------------------------------------------------------------------
(* Properties of the walk of scrape_mode over the list pages, checked under  *)
(* SpecScrape                                                                *)

\* C26, as claimed: with a pagination selector, on a site whose list pages
\* but the last expose the next-control, when no navigation or wait fails,
\* scrape_mode returns the records of exactly the num_pages pages, every
\* well-formed item of every page among them, having counted one page per
\* activation of the control.
C26_PaginationTermination ==
    (spc = "done" /\ ~env_fault /\ selectors.pagination_next) =>
        /\ page_count = num_pages
        /\ \A p \in 1..num_pages : \A j \in 1..Len(list_items) :
              list_items[j] # "broken" => Recorded(p, j)
        /\ \A n \in 1..Len(all_jobs) :
              all_jobs[n].on = "list" /\ all_jobs[n].p \in 1..num_pages

----------------------------------------------------------------------------
(* Properties of a failed detail fetch, checked under SpecDetails            *)

\* C27: when the navigation of the detail fetch raises, extract_job_details
\* returns an empty result, and the record that is emitted is the item's base
\* record: title, location, job_id, job_url, preview_description and company
\* as they were read on the list page, and nothing else.
C27_FailedFetchKeepsBaseRecord ==
    (navigated = "no") =>
        /\ epc \in {"returned", "done"}
        /\ details = EmptyDict
        /\ epc = "done" => job_data = BaseRecord(saved, card_text)

\* C27, witness: the navigation raised, with detail selectors and values on
\* the page that a fetch would have found, and the base record is emitted.
C27_Witness ==
    /\ navigated = "no"
    /\ epc = "done"
    /\ Truthy(detail_arg)
    /\ fallback_extracted # EmptyDict
    /\ DOMAIN job_data = BaseKeys

\* every well-formed item of the list pages before page k is returned, and
\* nothing else is
RecordsOfPagesBefore(k) ==
    /\ \A p \in 1..(k - 1) : \A j \in 1..Len(list_items) :
          list_items[j] # "broken" => Recorded(p, j)
    /\ \A n \in 1..Len(all_jobs) :
          all_jobs[n].on = "list" /\ all_jobs[n].p \in 1..(k - 1)

\* C28, as claimed: no error raised after the browser is launched leaves
\* scrape_mode, and when the wait for the list container times out on page k,
\* scrape_mode returns the records of pages 1..k-1 (none for k = 1).
C28_NoErrorEscapesAfterLaunch ==
    /\ spc # "raised"
    /\ (spc = "done" /\ wait_failed_on > 0) => RecordsOfPagesBefore(wait_failed_on)

\* scout_mode, respectively scrape_mode, has been left
ScoutExited == scout_pc \in {"done", "raised"}
ScrapeExited == spc \in {"done", "raised"}

\* C29: once scout_mode or scrape_mode has been left, by its return or by an
\* exception, the browser it launched is closed, and with it every tab a
\* failed discovery left open.
C29_BrowserClosedOnEveryExit ==
    /\ ScoutExited => ~scout_browser_open
    /\ ScrapeExited => (~browser_open /\ temp_pages = 0)

\* C29 witness: scrape_mode has returned after a discovery that raised, whose
\* tab was never closed by line 469, and the browser is closed.
C29_Witness ==
    /\ spc = "done"
    /\ scout_pc = "done"
    /\ ~browser_open
    /\ env_fault
    /\ \E n \in 1..Len(all_jobs) : all_jobs[n].disc = "raised"

\* record n of all_jobs was read from a list page
FromList(n) == all_jobs[n].on = "list"

\* list item (p, j) comes before list item (q, k) in the walk
Earlier(p, j, q, k) == p < q \/ (p = q /\ j < k)

\* C30: in all_jobs the records of list items stand in the order of the walk,
\* page by page and within a page item by item; as the order is strict, no
\* list item has two records.
C30_DiscoveryOrder ==
    \A n, m \in 1..Len(all_jobs) :
        (n < m /\ FromList(n) /\ FromList(m)) =>
            Earlier(all_jobs[n].p, all_jobs[n].idx, all_jobs[m].p, all_jobs[m].idx)

\* C30 witness: scrape_mode has returned the records of two pages, with more
\* than one record of each.
C30_Witness ==
    /\ spc = "done"
    /\ \A p \in 1..2 :
          \E n, m \in 1..Len(all_jobs) :
              /\ n < m
              /\ FromList(n) /\ FromList(m)
              /\ all_jobs[n].p = p /\ all_jobs[m].p = p

\* a field value that is a non-empty string and no placeholder
ProperValue(v) ==
    IF v = PyNone THEN FALSE ELSE v.str # << >> /\ v.str \notin Placeholders

\* C31, as claimed: every field of an emitted record, base field or merged
\* detail field, holds a non-empty string that is no placeholder; a field
\* without value is absent.
C31_NoNullOrPlaceholderValues ==
    epc = "done" => \A k \in DOMAIN job_data : ProperValue(job_data[k])

\* C39, as claimed: in an emitted record the six base fields hold what was
\* read from the list card (or the company name), whatever keys the detail
\* selectors, the fallback extractor and the metadata extractor produced.
C39_BaseFieldsUntouchedByMerge ==
    epc = "done" =>
        \A k \in BaseKeys : job_data[k] = BaseRecord(saved, card_text)[k]

\* the generation calls the current call has issued, over all the models
RECURSIVE GenerationsOfFirst(_)
GenerationsOfFirst(k) ==
    IF k = 0 THEN 0 ELSE gen_calls[MODEL_HIERARCHY[k]] + GenerationsOfFirst(k - 1)
CallGenerations == GenerationsOfFirst(Len(MODEL_HIERARCHY))

\* C32: in a call_gemini_with_fallback call every attempt makes one
\* wait_for_rate_limit call, before its generation call: the acquisitions are
\* as many as the generation calls, one more while an attempt is between the
\* two; and the slot an attempt took stays counted in _request_count when the
\* attempt has failed.
C32_OneAcquisitionPerAttempt ==
    /\ acquired.n = CallGenerations + (IF pc = "generate" THEN 1 ELSE 0)
    /\ acquired.n > 0 => (acquired.count >= 1 /\ _request_count = acquired.count)

\* C32 witness: a call has made three attempts that failed, by a parse
\* failure, a transient error and a quota error, and their three slots are
\* counted.
C32_Witness ==
    /\ pc = "select"
    /\ acquired.n = 3
    /\ _request_count = 3
    /\ attempts_log = <<"malformed", "raised", "quota">>

\* C35: an entry of _model_rate_limit_flags is the mark of a quota error; a
\* model whose attempts of the call all failed otherwise, or whose last
\* attempt was a parse failure, an empty response or a transient error, has
\* no entry, and neither has a model no quota error ever marked (be it
\* skipped as not initializable), so the next call does not skip it as cooled.
C35_OnlyQuotaErrorsMark ==
    /\ \A m \in DOMAIN _model_rate_limit_flags :
          last_mark[m] # -1 /\ _model_rate_limit_flags[m] = last_mark[m]
    /\ (last_gen.model \in Models /\ last_gen.outcome # "quota") =>
          last_gen.model \notin DOMAIN _model_rate_limit_flags
    /\ \A m \in Models :
          (gen_calls[m] > 0 /\ quota_at[m] = -1) => m \notin DOMAIN _model_rate_limit_flags

\* C35 witness: the first call gave up its first model after
\* MAX_RETRY_ATTEMPTS failed attempts, no quota error was ever seen, and the
\* second call is trying the first model again.
C35_Witness ==
    /\ calls = 2
    /\ pc = "wait"
    /\ model_idx = 1
    /\ generations > MAX_RETRY_ATTEMPTS
    /\ \A m \in Models : last_mark[m] = -1
    /\ _model_rate_limit_flags = << >>

\* the call was made while every model was inside its cooldown
AllCooledAtEntry == calls > 0 /\ at_entry.cooled = Models

\* C36: a call made while every model is inside its cooldown returns None
\* without a generation call, a wait_for_rate_limit call or a sleep: the
\* clock and _request_count, _minute_start_time and _last_request_time are
\* what they were when the call was made.
C36_AllCooledReturnsAtOnce ==
    AllCooledAtEntry =>
        /\ pc \in {"select", "done", "idle"}
        /\ pc \in {"done", "idle"} => result = "None"
        /\ CallGenerations = 0
        /\ acquired.n = 0
        /\ now = at_entry.clock
        /\ _request_count = at_entry.request_count
        /\ _minute_start_time = at_entry.minute_start
        /\ _last_request_time = at_entry.last_request

\* C36 witness: the second call was made while all the models were inside
\* their cooldown, and has returned None.
C36_Witness ==
    /\ AllCooledAtEntry
    /\ calls = 2
    /\ pc = "done"
    /\ result = "None"
    /\ generations = Len(MODEL_HIERARCHY)
    /\ _request_count = Len(MODEL_HIERARCHY)

\* the steps one model of the hierarchy can take at most: its selection and,
\* for each attempt, the acquisition, the generation call and the retry delay
StepsPerModel == 3 * MAX_RETRY_ATTEMPTS + 1

\* the steps a call at its position can still take at most
StepsLeft ==
    CASE pc \in {"done", "idle"} -> 0
      [] pc = "select" -> (Len(MODEL_HIERARCHY) + 1 - model_idx) * StepsPerModel + 1
      [] OTHER ->
            (Len(MODEL_HIERARCHY) - model_idx) * StepsPerModel + 1
            + 3 * (MAX_RETRY_ATTEMPTS - attempt)
            - (CASE pc = "wait" -> 0 [] pc = "generate" -> 1 [] OTHER -> 2)

\* a step of a call that has not returned
InCall == pc \notin {"done", "idle"}

\* C37: call_gemini_with_fallback terminates, as every step of a call brings
\* it nearer to its return; it issues at most
\* Len(MODEL_HIERARCHY) * MAX_RETRY_ATTEMPTS generation calls, and its walk
\* over the hierarchy never goes back to an earlier model.
C37_CallTerminates ==
    /\ [](CallGenerations <= Len(MODEL_HIERARCHY) * MAX_RETRY_ATTEMPTS)
    /\ [](StepsLeft >= 0)
    /\ [][InCall => (StepsLeft' < StepsLeft /\ model_idx' >= model_idx)]_vars

\* C37 witness: a call has returned None after every model failed
\* MAX_RETRY_ATTEMPTS times.
C37_Witness ==
    /\ pc = "done"
    /\ result = "None"
    /\ CallGenerations = Len(MODEL_HIERARCHY) * MAX_RETRY_ATTEMPTS
    /\ \A m \in Models : gen_calls[m] = MAX_RETRY_ATTEMPTS

\* when the call was entered: the time to the reset of the window, and the
\* time remaining to the minimum interval since the previous grant
TimeToWindowReset == WINDOW_SECONDS - (at_entry.clock - at_entry.minute_start)
TimeToMinimumInterval ==
    GEMINI_MIN_REQUEST_INTERVAL - (at_entry.clock - at_entry.last_request)

----------------------------------------------------------------------------
(* Properties of the configuration store, checked under SpecStore           *)

\* C33: in intelligent_scrape_all a company whose configuration exists is never
\* scouted, and after a successful scout of company c get_company_configuration(c)
\* returns exactly the map that discovery produced while the stored maps of the
\* other companies are as they were before the scout.
C33_ScoutedOnlyWithoutMapAndPersisted ==
    (last_scout.n = 1 /\ last_scout.op = "phase2") =>
        /\ SafeNameOf[last_scout.company] \notin DOMAIN last_scout.before
        /\ Truthy(last_scout.returned) =>
              /\ get_company_configuration(configurations, last_scout.company)
                    = last_scout.discovery
              /\ \A d \in CompanyNames \ {last_scout.company} :
                    get_company_configuration(configurations, d)
                        = get_company_configuration(last_scout.before, d)

\* C34 as stated: when discovery yields None, scout_mode returns None and leaves the
\* store as it was, and a later scrape of that company launches no session and
\* returns an empty list (or is skipped by the batch loop).
C34_ExhaustionThenEmptyScrape ==
    /\ (last_scout.n = 1 /\ last_scout.discovery = PyNone) =>
          (last_scout.returned = PyNone /\ configurations = last_scout.before)
    /\ (/\ last_scrape.n = 1
        /\ last_scrape.scout.n = 1
        /\ last_scrape.scout.discovery = PyNone
        /\ last_scrape.scout.company = last_scrape.company) =>
          (~last_scrape.launched /\ last_scrape.returned \in {"[]", "skipped"})

\* C34, amended: when discovery yields None, scout_mode returns None and leaves the
\* store as it was; a later scrape of that company launches no session and returns
\* an empty list (or is skipped) if no map was stored for the company before the
\* scout, and launches a session with the stored map if one was.
C34_ExhaustionKeepsStore ==
    /\ (last_scout.n = 1 /\ last_scout.discovery = PyNone) =>
          (last_scout.returned = PyNone /\ configurations = last_scout.before)
    /\ (/\ last_scrape.n = 1
        /\ last_scrape.scout.n = 1
        /\ last_scrape.scout.discovery = PyNone
        /\ last_scrape.scout.company = last_scrape.company) =>
          IF Truthy(get_company_configuration(last_scrape.scout.before, last_scrape.company))
          THEN last_scrape.launched
          ELSE ~last_scrape.launched /\ last_scrape.returned \in {"[]", "skipped"}

\* C34: a scrape_mode call by name returned [] without a session, right after a scout
\* of the same company whose discovery was None and which found other maps stored
C34_Witness ==
    /\ last_scrape.n = 1
    /\ last_scrape.scout.n = 1
    /\ last_scrape.scout = last_scout
    /\ last_scout.discovery = PyNone
    /\ last_scout.company = last_scrape.company
    /\ last_scout.before # EmptyDict
    /\ configurations = last_scout.before
    /\ last_scrape.returned = "[]"
    /\ ~last_scrape.launched

====
